---- MODULE Spec2Model ----
\* Markdown Navigator (NVDA add-on): the snapshot line index (document.py) and the
\* fast navigation controller (navigator.py), modelled as a state machine.
\*
\* Text is a sequence of characters; a character is a one-character string, except
\* the few named below.  Python offsets are 0-based: the character at Python
\* offset p is text[p + 1], and text[a:b] is SubSeq(text, a + 1, b).
EXTENDS Integers, Sequences, FiniteSets, TLC

VARIABLES
    documentText,        \* host: the text of the edited document
    hostCaret,           \* host: caret position, in characters from document start
    markdownBrowseMode,  \* MarkdownEditorOverlay.markdownBrowseMode
    fdm,                 \* the FastDocumentManager of the running / last command
    pc,                  \* where the handler stands: "idle", "open", "legacy", "raised"
    cmd,                 \* the command being handled, with the caret it started from
    out,                 \* what the command did to the outside, in order
    ret                  \* the value returned by the last FastDocumentManager call

vars == <<documentText, hostCaret, markdownBrowseMode, fdm, pc, cmd, out, ret>>

--------------------------------------------------------------------------------
\* Characters

LF == "LF"
CR == "CR"
\* a character outside the Basic Multilingual Plane: one Python character, a
\* surrogate pair (two code units) in UTF-16
EMOJI == "EMOJI"
\* the grave accent, which a TLA+ string cannot hold
BACKTICK == "BACKTICK"

\* bounds of the input documents
MaxLen == 4
MaxLines == 3

--------------------------------------------------------------------------------
\* document.py: the offset index

RECURSIVE NewlineEndsApart(_, _)
\* mutant: the pattern is \r|\n, a \r\n pair making two breaks
NewlineEndsApart(text, pos) ==
    IF pos >= Len(text) THEN <<>>
    ELSE IF text[pos + 1] = LF \/ text[pos + 1] = CR
         THEN <<pos + 1>> \o NewlineEndsApart(text, pos + 1)
    ELSE NewlineEndsApart(text, pos + 1)

RECURSIVE NewlineEnds(_, _)
\* [m.end() for m in NEWLINE_REGEX.finditer(text)], NEWLINE_REGEX = \r?\n|\r,
\* scanning from Python offset pos
NewlineEnds(text, pos) ==
    IF pos >= Len(text) THEN <<>>
    ELSE IF text[pos + 1] = CR /\ pos + 1 < Len(text) /\ text[pos + 2] = LF
         THEN <<pos + 2>> \o NewlineEnds(text, pos + 2)
    ELSE IF text[pos + 1] = LF \/ text[pos + 1] = CR
         THEN <<pos + 1>> \o NewlineEnds(text, pos + 1)
    ELSE NewlineEnds(text, pos + 1)

\* bytes of one character in UTF-16-LE
Utf16LeBytes(c) == IF c = EMOJI THEN 4 ELSE 2

RECURSIVE EncodedBytes(_)
\* len(chunk.encode("utf-16-le"))
EncodedBytes(chunk) ==
    IF chunk = <<>> THEN 0 ELSE Utf16LeBytes(Head(chunk)) + EncodedBytes(Tail(chunk))

\* chunkUtf16Len = len(chunk.encode("utf-16-le")) // 2
ChunkUtf16Len(chunk) == EncodedBytes(chunk) \div 2

RECURSIVE Utf16AccumulateNoSum(_, _, _, _)
\* mutant: currentUtf16 = chunkUtf16Len instead of currentUtf16 += chunkUtf16Len
Utf16AccumulateNoSum(text, ends, lastPy, currentUtf16) ==
    IF ends = <<>> THEN <<>>
    ELSE LET pyEnd == Head(ends)
             chunk == SubSeq(text, lastPy + 1, pyEnd)
             cur == ChunkUtf16Len(chunk)
         IN  <<cur>> \o Utf16AccumulateNoSum(text, Tail(ends), pyEnd, cur)

RECURSIVE Utf16Accumulate(_, _, _, _)
\* the body of the loop of __enter__ over the newline matches: the UTF-16 offsets
\* appended after the leading 0
Utf16Accumulate(text, ends, lastPy, currentUtf16) ==
    IF ends = <<>> THEN <<>>
    ELSE LET pyEnd == Head(ends)
             chunk == SubSeq(text, lastPy + 1, pyEnd)
             cur == currentUtf16 + ChunkUtf16Len(chunk)
         IN  <<cur>> \o Utf16Accumulate(text, Tail(ends), pyEnd, cur)

RECURSIVE BisectLoop(_, _, _, _)
\* bisect.bisect_right(a, x, lo, hi): a is 0-based in Python, a[mid] is a[mid + 1] here
BisectLoop(a, x, lo, hi) ==
    IF lo < hi
    THEN LET mid == (lo + hi) \div 2
         IN  IF x < a[mid + 1] THEN BisectLoop(a, x, lo, mid)
                               ELSE BisectLoop(a, x, mid + 1, hi)
    ELSE lo

RECURSIVE BisectLeftLoop(_, _, _, _)
BisectLeftLoop(a, x, lo, hi) ==
    IF lo < hi
    THEN LET mid == (lo + hi) \div 2
         IN  IF a[mid + 1] < x THEN BisectLeftLoop(a, x, mid + 1, hi)
                               ELSE BisectLeftLoop(a, x, lo, mid)
    ELSE lo

\* mutant: bisect_left in place of bisect_right
bisect_left(a, x) == BisectLeftLoop(a, x, 0, Len(a))

bisect_right(a, x) == BisectLoop(a, x, 0, Len(a))

\* FastDocumentManager.__init__; textReads is not a field of the class: it lists
\* the reads of a host range's text made for the manager's command
FdmInit ==
    [opened |-> FALSE, documentText |-> <<>>, pyOffsets |-> <<>>, utf16Offsets |-> <<>>,
     lineIndex |-> 0, originalLineIndex |-> 0, nLines |-> 0, initialCaretOffset |-> 0,
     textReads |-> <<>>]

\* FastDocumentManager.__enter__ when both makeTextInfo calls succeed: text is
\* document.text (line 84) and caretOffset is len(pretext.text) (line 106)
FdmEnter(text, caretOffset) ==
    LET ends == NewlineEnds(text, 0)
        pyOffsets == <<0>> \o ends
        utf16Offsets == <<0>> \o Utf16Accumulate(text, ends, 0, 0)
        found == bisect_right(pyOffsets, caretOffset) - 1
        lineIndex == IF found < 0 THEN 0 ELSE found
    IN  [opened |-> TRUE, documentText |-> text, pyOffsets |-> pyOffsets,
         utf16Offsets |-> utf16Offsets, lineIndex |-> lineIndex,
         originalLineIndex |-> lineIndex, nLines |-> Len(pyOffsets),
         initialCaretOffset |-> caretOffset,
         textReads |-> <<"document.text", "pretext.text">>]

\* mutant: the upper bound test is newIndex > nLines
moveOffByOne(f, increment) ==
    LET newIndex == f.lineIndex + increment
    IN  IF newIndex < 0 \/ newIndex > f.nLines
        THEN [fdm |-> f, ret |-> 0]
        ELSE [fdm |-> [f EXCEPT !.lineIndex = newIndex], ret |-> increment]

\* FastDocumentManager.move: the manager afterwards and the value returned
move(f, increment) ==
    LET newIndex == f.lineIndex + increment
    IN  IF newIndex < 0 \/ newIndex >= f.nLines
        THEN [fdm |-> f, ret |-> 0]
        ELSE [fdm |-> [f EXCEPT !.lineIndex = newIndex], ret |-> increment]

\* mutant: a line's text stops before the last character of its terminator
getTextNoTerminator(f, lineIndex) ==
    IF lineIndex < 0 \/ lineIndex >= f.nLines THEN <<>>
    ELSE LET startOffset == f.pyOffsets[lineIndex + 1]
             endOffset == IF lineIndex + 2 <= Len(f.pyOffsets)
                          THEN f.pyOffsets[lineIndex + 2] - 1
                          ELSE Len(f.documentText)
         IN  SubSeq(f.documentText, startOffset + 1, endOffset)

\* FastDocumentManager.getText(lineIndex)
getText(f, lineIndex) ==
    IF lineIndex < 0 \/ lineIndex >= f.nLines THEN <<>>
    ELSE LET startOffset == f.pyOffsets[lineIndex + 1]
             endOffset == IF lineIndex + 2 <= Len(f.pyOffsets)
                          THEN f.pyOffsets[lineIndex + 2]
                          ELSE Len(f.documentText)
         IN  SubSeq(f.documentText, startOffset + 1, endOffset)

\* FastDocumentManager.getLineOffset(lineIndex)
getLineOffset(f, lineIndex) ==
    IF lineIndex < f.nLines THEN f.pyOffsets[lineIndex + 1] ELSE Len(f.documentText)

--------------------------------------------------------------------------------
\* patterns.py: the matchers, on one line's text

TAB == "TAB"

\* \s
IsSpace(c) == c \in {" ", TAB, LF, CR}

\* \d
IsDigit(c) == c \in {"0", "1", "2", "3", "4", "5", "6", "7", "8", "9"}

\* the character at Python offset p, or "" past the end of the text
CharAt(text, p) == IF p >= 0 /\ p < Len(text) THEN text[p + 1] ELSE ""

\* the number of characters from Python offset pos on that are all in S
RunIn(text, pos, S) ==
    LET lens == {n \in 0 .. Len(text) - pos : \A i \in 1 .. n : text[pos + i] \in S}
    IN  CHOOSE n \in lens : \A m \in lens : m <= n

\* the number of characters from Python offset pos on that are all outside S
RunNotIn(text, pos, S) ==
    LET lens == {n \in 0 .. Len(text) - pos : \A i \in 1 .. n : text[pos + i] \notin S}
    IN  CHOOSE n \in lens : \A m \in lens : m <= n

\* what ^\s* consumes before a pattern that starts with a non-space character
LeadingSpace(text) == RunIn(text, 0, {" ", TAB, LF, CR})

\* RE_HEADING = ^\s*#{1,6}\s
MatchHeading(text) ==
    LET p == LeadingSpace(text)
        h == RunIn(text, p, {"#"})
    IN  h >= 1 /\ h <= 6 /\ IsSpace(CharAt(text, p + h))

\* getHeadingRegex(level) = ^\s*#{level}\s
MatchHeadingLevel(text, level) ==
    LET p == LeadingSpace(text)
        h == RunIn(text, p, {"#"})
    IN  h = level /\ IsSpace(CharAt(text, p + h))

\* RE_LIST_ITEM = ^\s*([\*\-\+]|\d+\.)\s
MatchListItem(text) ==
    LET p == LeadingSpace(text)
        d == RunIn(text, p, {"0", "1", "2", "3", "4", "5", "6", "7", "8", "9"})
    IN  \/ CharAt(text, p) \in {"*", "-", "+"} /\ IsSpace(CharAt(text, p + 1))
        \/ d >= 1 /\ CharAt(text, p + d) = "." /\ IsSpace(CharAt(text, p + d + 1))

\* RE_BLOCKQUOTE = ^\s*>\s
MatchBlockquote(text) ==
    LET p == LeadingSpace(text)
    IN  CharAt(text, p) = ">" /\ IsSpace(CharAt(text, p + 1))

\* RE_TABLE = ^\s*\|
MatchTable(text) == CharAt(text, LeadingSpace(text)) = "|"

\* RE_CODE_BLOCK = ^\s*`{3,}
MatchCodeBlock(text) == RunIn(text, LeadingSpace(text), {BACKTICK}) >= 3

\* RE_INLINE_CODE = (?<!`)`[^`\n]+`(?!`) tried at Python offset i: the end of the
\* match, or -1
InlineCodeAt(text, i) ==
    LET r == RunNotIn(text, i + 1, {BACKTICK, LF})
    IN  IF /\ CharAt(text, i) = BACKTICK
           /\ CharAt(text, i - 1) # BACKTICK
           /\ r >= 1
           /\ CharAt(text, i + 1 + r) = BACKTICK
           /\ CharAt(text, i + 2 + r) # BACKTICK
        THEN i + 2 + r
        ELSE -1

\* RE_FOOTNOTE = \[\^.+?\](:)? tried at Python offset i: the end of the match, or -1
FootnoteAt(text, i) ==
    LET \* the offsets of a closing bracket that .+? can stop before
        closers == {j \in i + 3 .. Len(text) - 1 :
                       /\ text[j + 1] = "]"
                       /\ \A k \in i + 2 .. j - 1 : text[k + 1] # LF}
    IN  IF CharAt(text, i) = "[" /\ CharAt(text, i + 1) = "^" /\ closers # {}
        THEN LET j == CHOOSE c \in closers : \A d \in closers : c <= d
             IN  IF CharAt(text, j + 1) = ":" THEN j + 2 ELSE j + 1
        ELSE -1

\* the patterns of line-anchored constructs and of inline constructs
AnchoredPatterns ==
    {"RE_HEADING", "RE_LIST_ITEM", "RE_BLOCKQUOTE", "RE_TABLE", "RE_CODE_BLOCK",
     "getHeadingRegex(1)", "getHeadingRegex(2)"}

\* regex.match(text) for a pattern anchored with ^
MatchAnchored(regex, text) ==
    CASE regex = "RE_HEADING" -> MatchHeading(text)
      [] regex = "RE_LIST_ITEM" -> MatchListItem(text)
      [] regex = "RE_BLOCKQUOTE" -> MatchBlockquote(text)
      [] regex = "RE_TABLE" -> MatchTable(text)
      [] regex = "RE_CODE_BLOCK" -> MatchCodeBlock(text)
      [] regex = "getHeadingRegex(1)" -> MatchHeadingLevel(text, 1)
      [] regex = "getHeadingRegex(2)" -> MatchHeadingLevel(text, 2)

\* the end of the match of regex that starts at Python offset i, or -1
MatchEndAt(regex, text, i) ==
    CASE regex = "RE_INLINE_CODE" -> InlineCodeAt(text, i)
      [] regex = "RE_FOOTNOTE" -> FootnoteAt(text, i)
      [] OTHER -> IF i = 0 /\ MatchAnchored(regex, text) THEN 1 ELSE -1

RECURSIVE FindIterFrom(_, _, _)
FindIterFrom(regex, text, pos) ==
    IF pos >= Len(text) THEN <<>>
    ELSE LET e == MatchEndAt(regex, text, pos)
         IN  IF e > pos
             THEN <<[start |-> pos, end |-> e]>> \o FindIterFrom(regex, text, e)
             ELSE FindIterFrom(regex, text, pos + 1)

\* list(regex.finditer(text)): the matches left to right, none overlapping
finditer(regex, text) == FindIterFrom(regex, text, 0)

\* regex.match(text)
match(regex, text) ==
    IF regex \in AnchoredPatterns THEN MatchAnchored(regex, text)
    ELSE MatchEndAt(regex, text, 0) >= 0

\* regex.search(text)
search(regex, text) ==
    IF regex \in AnchoredPatterns THEN MatchAnchored(regex, text)
    ELSE finditer(regex, text) # <<>>

\* m.group()
group(text, m) == SubSeq(text, m.start + 1, m.end)

--------------------------------------------------------------------------------
\* The host, as the handlers see it: ranges over the document (TextInfo), the
\* caret, speech and messages.  A range is [start, end) in characters; the host's
\* lines are the lines of its text.

Min(S) == CHOOSE x \in S : \A y \in S : x <= y
Max(S) == CHOOSE x \in S : \A y \in S : y <= x

\* the character position of a UTF-16 code-unit offset of the host text
HostCharOfUtf16(offset16) ==
    LET fits == {n \in 0 .. Len(documentText) :
                    ChunkUtf16Len(SubSeq(documentText, 1, n)) <= offset16}
    IN  Max(fits)

\* the character positions at which the lines of the host text start
HostLineStarts ==
    LET ends == NewlineEnds(documentText, 0)
    IN  {0} \cup {ends[i] : i \in 1 .. Len(ends)}

\* TextInfo.expand(UNIT_LINE) of a range collapsed at character position p
HostExpandLine(p) ==
    LET start == Max({q \in HostLineStarts : q <= p})
        after == {q \in HostLineStarts : q > p}
        end == IF after = {} THEN Len(documentText) ELSE Min(after)
    IN  [start |-> start, end |-> end, text |-> SubSeq(documentText, start + 1, end)]

\* a range collapsed at a position
CollapsedAt(at) == [start |-> at, end |-> at, text |-> <<>>]

\* no range: the call raised
CollapsedNowhere == CollapsedAt(-1)

\* TextInfo.collapse() then move(UNIT_CHARACTER, n): the position reached
HostMoveCharacters(info, n) ==
    IF info.start + n > Len(documentText) THEN Len(documentText) ELSE info.start + n

\* what a handler does to the outside
EvSend == [ev |-> "send", at |-> 0, text |-> <<>>, args |-> <<>>]
EvCaret(at) == [ev |-> "caret", at |-> at, text |-> <<>>, args |-> <<>>]
EvSpeak(text) == [ev |-> "speak", at |-> 0, text |-> text, args |-> <<>>]
EvSpeakLine(info) == [ev |-> "speakLine", at |-> info.start, text |-> info.text, args |-> <<>>]
EvMessage(msg) == [ev |-> "message", at |-> 0, text |-> msg, args |-> <<>>]
EvLegacy(fn, args) == [ev |-> "legacy", at |-> 0, text |-> <<fn>>, args |-> args]
EvRaise(exc) == [ev |-> "raise", at |-> 0, text |-> <<exc>>, args |-> <<>>]
EvSound(wave) == [ev |-> "sound", at |-> 0, text |-> <<wave>>, args |-> <<>>]

\* getTextInfo, lines 188-195: the UTF-16 offset of the line from the table, or of
\* the document end past the table
Utf16OffsetOf(f, lineIndex) ==
    IF lineIndex < Len(f.utf16Offsets)
    THEN f.utf16Offsets[lineIndex + 1]
    ELSE LET lastKnownPy == f.pyOffsets[Len(f.pyOffsets)]
             lastKnownUtf16 == f.utf16Offsets[Len(f.utf16Offsets)]
             remainingText == SubSeq(f.documentText, lastKnownPy + 1, Len(f.documentText))
         IN  lastKnownUtf16 + ChunkUtf16Len(remainingText)

\* FastDocumentManager.getTextInfo(lineIndex) on a control whose ranges are linear
\* UTF-16 offsets: the offset of the line from the table (of the document end
\* past the table), expanded to the line
getTextInfo(f, lineIndex) == HostExpandLine(HostCharOfUtf16(Utf16OffsetOf(f, lineIndex)))

\* The backing control, as getTextInfo probes it:
\*   offsets   isinstance(self.document, OffsetsTextInfo)
\*   encoding  getattr(textInfo, "encoding", None): "None", "utf_8", or "failing",
\*             an encoding whose converter raises, on a control of UTF-16 offsets
\*   appName   self.obj.appModule.appName
\*   hasIA2    hasattr(self.obj, "IAccessibleTextObject")
\*   flat      where the flat position fails: nowhere ("ok"), in IA2TextTextInfo(...)
\*             ("construct"), in setting its offsets ("force"), in expand ("expand")
Control(offsets, encoding, appName, hasIA2, flat) ==
    [offsets |-> offsets, encoding |-> encoding, appName |-> appName, hasIA2 |-> hasIA2,
     flat |-> flat]

\* str.lower() on the application names used here
lower(appName) == IF appName = "Firefox" THEN "firefox" ELSE appName

\* isWeb = appName in ("chrome", "msedge", "firefox", "opera", "brave", "browser")
isWeb(control) ==
    lower(control.appName) \in {"chrome", "msedge", "firefox", "opera", "brave", "browser"}

\* len(c.encode("utf_8"))
Utf8Bytes(c) == IF c = EMOJI THEN 4 ELSE 1

RECURSIVE Utf8Len(_)
Utf8Len(chunk) == IF chunk = <<>> THEN 0 ELSE Utf8Bytes(Head(chunk)) + Utf8Len(Tail(chunk))

\* the character position of a UTF-8 byte offset of the host text
HostCharOfUtf8(offset8) ==
    Max({n \in 0 .. Len(documentText) : Utf8Len(SubSeq(documentText, 1, n)) <= offset8})

\* the host's line of a character position, and the start of the host's i-th line
HostLineIndexOf(p) == Cardinality({q \in HostLineStarts : q <= p}) - 1
HostStartOfLine(i) ==
    CHOOSE q \in HostLineStarts : Cardinality({r \in HostLineStarts : r < q}) = i

\* what one getTextInfo call comes to: the strategy that ended it, the exception
\* it raised ("none" when it returned), the character position the range was
\* placed at before the expansion, the range returned, the offset tables read
\* (by which strategy), and self.originalCaret afterwards
Resolved(strategy, raised, at, ti, reads, originalCaret) ==
    [strategy |-> strategy, raised |-> raised, at |-> at, ti |-> ti, reads |-> reads,
     originalCaret |-> originalCaret]

\* getTextInfo, lines 157-199: the document is an OffsetsTextInfo
LinearStrategy(f, control, originalCaret, lineIndex) ==
    IF control.encoding = "None"
    THEN LET at == HostCharOfUtf16(Utf16OffsetOf(f, lineIndex))
         IN  Resolved("linear", "none", at, HostExpandLine(at),
                      {<<"linear", "utf16Offsets">>}, originalCaret)
    ELSE IF lineIndex >= Len(f.pyOffsets)
    THEN \* pyOffset = self.pyOffsets[lineIndex], before the try
         Resolved("linear", "IndexError", 0, CollapsedNowhere,
                  {<<"linear", "pyOffsets">>}, originalCaret)
    ELSE IF control.encoding = "utf_8"
    THEN LET pyOffset == f.pyOffsets[lineIndex + 1]
             offset == Utf8Len(SubSeq(f.documentText, 1, pyOffset))
             at == HostCharOfUtf8(offset)
         IN  Resolved("linear", "none", at, HostExpandLine(at),
                      {<<"linear", "pyOffsets">>}, originalCaret)
    ELSE LET at == HostCharOfUtf16(Utf16OffsetOf(f, lineIndex))
         IN  Resolved("linear", "none", at, HostExpandLine(at),
                      {<<"linear", "pyOffsets">>, <<"linear", "utf16Offsets">>},
                      originalCaret)

\* mutant: the generic strategy moves the stored caret itself
GenericStrategyInPlace(f, originalCaret, lineIndex, reads) ==
    LET delta == lineIndex - f.originalLineIndex
        last == Cardinality(HostLineStarts) - 1
        line == Max({0, Min({last, HostLineIndexOf(originalCaret) + delta})})
        at == HostStartOfLine(line)
    IN  Resolved("generic", "none", at, HostExpandLine(at), reads, at)

\* getTextInfo, lines 245-252: a copy of the original caret, taken to the start of
\* its paragraph, moved delta paragraphs (as many as the document has), expanded
\* to the line; reads are the table reads made before
GenericStrategy(f, originalCaret, lineIndex, reads) ==
    LET delta == lineIndex - f.originalLineIndex
        last == Cardinality(HostLineStarts) - 1
        line == Max({0, Min({last, HostLineIndexOf(originalCaret) + delta})})
        at == HostStartOfLine(line)
    IN  Resolved("generic", "none", at, HostExpandLine(at), reads, originalCaret)

\* mutant: a failure before the expansion is not handled
FlatStrategyUncaught(f, control, originalCaret, lineIndex) ==
    LET targetUtf16 == IF lineIndex < Len(f.utf16Offsets)
                       THEN f.utf16Offsets[lineIndex + 1]
                       ELSE f.utf16Offsets[Len(f.utf16Offsets)]
        at == HostCharOfUtf16(targetUtf16)
        reads == {<<"flat", "pyOffsets">>, <<"flat", "utf16Offsets">>}
    IN  IF ~control.hasIA2 THEN GenericStrategy(f, originalCaret, lineIndex, reads)
        ELSE IF control.flat \in {"construct", "force"}
        THEN Resolved("flat", "Exception", 0, CollapsedNowhere, reads, originalCaret)
        ELSE IF control.flat = "expand"
        THEN Resolved("flat", "none", at, CollapsedAt(at), reads, originalCaret)
        ELSE Resolved("flat", "none", at, HostExpandLine(at), reads, originalCaret)

\* getTextInfo, lines 206-242: the flat position of a web document
FlatStrategy(f, control, originalCaret, lineIndex) ==
    LET targetUtf16 == IF lineIndex < Len(f.utf16Offsets)
                       THEN f.utf16Offsets[lineIndex + 1]
                       ELSE f.utf16Offsets[Len(f.utf16Offsets)]
        at == HostCharOfUtf16(targetUtf16)
        reads == {<<"flat", "pyOffsets">>, <<"flat", "utf16Offsets">>}
    IN  IF ~control.hasIA2 \/ control.flat \in {"construct", "force"}
        THEN GenericStrategy(f, originalCaret, lineIndex, reads)
        ELSE IF control.flat = "expand"
        THEN Resolved("flat", "none", at, CollapsedAt(at), reads, originalCaret)
        ELSE Resolved("flat", "none", at, HostExpandLine(at), reads, originalCaret)

\* FastDocumentManager.getTextInfo(lineIndex) on any control
getTextInfoOn(f, control, originalCaret, lineIndex) ==
    IF control.offsets THEN LinearStrategy(f, control, originalCaret, lineIndex)
    ELSE IF isWeb(control) THEN FlatStrategy(f, control, originalCaret, lineIndex)
    ELSE GenericStrategy(f, originalCaret, lineIndex, {})

\* FastDocumentManager.updateCaret(lineIndex): the caret event; the line's range
\* is getTextInfo(f, lineIndex)
updateCaret(f, lineIndex) == EvCaret(getTextInfo(f, lineIndex).start)

\* lineInfo.collapse(); lineInfo.move(UNIT_CHARACTER, m.start());
\* lineInfo.updateCaret(); speech.speak([m.group()])
JumpToMatch(f, text, m) ==
    <<EvCaret(HostMoveCharacters(getTextInfo(f, f.lineIndex), m.start)),
      EvSpeak(group(text, m))>>

--------------------------------------------------------------------------------
\* navigator.py: the fast navigation controller

\* None, as the value of notFoundMessage
None == "None"

\* mutant: the override message is ignored
NotFoundTextDefault(direction, name, notFoundMessage) ==
    IF direction = 1 THEN <<"no next %s found", name>> ELSE <<"no previous %s found", name>>

\* the message of the not-found branch
NotFoundText(direction, name, notFoundMessage) ==
    IF notFoundMessage # None /\ notFoundMessage # ""
    THEN <<notFoundMessage>>
    ELSE IF direction = 1 THEN <<"no next %s found", name>>
                          ELSE <<"no previous %s found", name>>

\* mutant: going backward, the first match before the caret offset is taken
TargetMatchFirst(matches, direction, caret_offset) ==
    LET ahead == {i \in 1 .. Len(matches) :
                     IF direction = 1 THEN matches[i].start > caret_offset
                                      ELSE matches[i].start < caret_offset}
    IN  IF ahead = {} THEN <<>> ELSE <<matches[Min(ahead)]>>

\* the first match that starts after the caret offset (forward), the last one
\* that starts before it (backward); <<>> when there is none
TargetMatch(matches, direction, caret_offset) ==
    LET ahead == {i \in 1 .. Len(matches) :
                     IF direction = 1 THEN matches[i].start > caret_offset
                                      ELSE matches[i].start < caret_offset}
    IN  IF ahead = {} THEN <<>>
        ELSE IF direction = 1 THEN <<matches[Min(ahead)]>> ELSE <<matches[Max(ahead)]>>

RECURSIVE FocusScan(_, _, _)
\* _navigateFast, focus_element: while fdm.move(direction) != 0
FocusScan(f, regex, direction) ==
    LET r == move(f, direction)
        text == getText(r.fdm, r.fdm.lineIndex)
        matches == finditer(regex, text)
    IN  IF r.ret = 0 THEN [found |-> FALSE, fdm |-> r.fdm, out |-> <<>>]
        ELSE IF matches # <<>>
        THEN LET m == IF direction = 1 THEN matches[1] ELSE matches[Len(matches)]
             IN  [found |-> TRUE, fdm |-> r.fdm, out |-> JumpToMatch(r.fdm, text, m)]
        ELSE FocusScan(r.fdm, regex, direction)

RECURSIVE LineScanOwnLine(_, _, _)
\* mutant: the line the cursor is on is searched before the cursor steps
LineScanOwnLine(f, regex, direction) ==
    LET r == move(f, direction)
    IN  IF search(regex, getText(f, f.lineIndex))
        THEN [found |-> TRUE, fdm |-> f,
              out |-> <<updateCaret(f, f.lineIndex), EvSpeakLine(getTextInfo(f, f.lineIndex))>>]
        ELSE IF r.ret = 0 THEN [found |-> FALSE, fdm |-> r.fdm, out |-> <<>>]
        ELSE LineScanOwnLine(r.fdm, regex, direction)

RECURSIVE LineScan(_, _, _)
\* _navigateFast, not focus_element: while fdm.move(direction) != 0
LineScan(f, regex, direction) ==
    LET r == move(f, direction)
        text == getText(r.fdm, r.fdm.lineIndex)
    IN  IF r.ret = 0 THEN [found |-> FALSE, fdm |-> r.fdm, out |-> <<>>]
        ELSE IF search(regex, text)
        THEN [found |-> TRUE, fdm |-> r.fdm,
              out |-> <<updateCaret(r.fdm, r.fdm.lineIndex),
                        EvSpeakLine(getTextInfo(r.fdm, r.fdm.lineIndex))>>]
        ELSE LineScan(r.fdm, regex, direction)

\* a scan's result, with the not-found message when nothing was found
WithNotFound(scan, direction, name, notFoundMessage) ==
    [fdm |-> scan.fdm,
     out |-> IF scan.found THEN scan.out
             ELSE <<EvMessage(NotFoundText(direction, name, notFoundMessage))>>]

\* pretext = fdm.originalCaret.copy(); pretext.setEndPoint(fdm.document,
\* "startToStart"); len(pretext.text): the text before the caret is read again
PretextRead(f) == [f EXCEPT !.textReads = Append(@, "pretext.text")]

\* MarkdownEditorOverlay._navigateFast; docCaretPos is len(pretext.text)
_navigateFast(f, docCaretPos, regex, direction, name, focus_element, notFoundMessage) ==
    IF focus_element
    THEN LET currentLineText == getText(f, f.lineIndex)
             lineStartOffset == getLineOffset(f, f.lineIndex)
             \* docCaretPos = len(pretext.text), read from the host again (line 134)
             g == PretextRead(f)
             caret_offset == docCaretPos - lineStartOffset
             matches == finditer(regex, currentLineText)
             target_match == TargetMatch(matches, direction, caret_offset)
         IN  IF target_match # <<>>
             THEN [fdm |-> g, out |-> JumpToMatch(g, currentLineText, target_match[1])]
             ELSE WithNotFound(FocusScan(g, regex, direction), direction, name,
                               notFoundMessage)
    ELSE WithNotFound(LineScan(f, regex, direction), direction, name, notFoundMessage)

\* mutant: the walk to the top of the block is left out
BlockTopNoWalk(f, regex, line) == line

RECURSIVE BlockTop(_, _, _)
\* while line > 0 and regex.match(fdm.getText(line - 1)): line -= 1
BlockTop(f, regex, line) ==
    IF line > 0 /\ match(regex, getText(f, line - 1))
    THEN BlockTop(f, regex, line - 1)
    ELSE line

\* fdm.updateCaret(line) and speech.speakTextInfo of the line it returns
CaretAndSpeakLine(f, line) == <<updateCaret(f, line), EvSpeakLine(getTextInfo(f, line))>>

RECURSIVE BlockScanNoLeave(_, _, _, _)
\* mutant: in_block is not cleared at the line that fails to match
BlockScanNoLeave(f, regex, direction, in_block) ==
    LET r == move(f, direction)
        text == getText(r.fdm, r.fdm.lineIndex)
        is_match == match(regex, text)
    IN  IF r.ret = 0 THEN [found |-> FALSE, fdm |-> r.fdm, out |-> <<>>]
        ELSE IF in_block THEN BlockScanNoLeave(r.fdm, regex, direction, in_block)
        ELSE IF is_match
        THEN LET targetLine == IF direction = -1
                               THEN BlockTop(r.fdm, regex, r.fdm.lineIndex)
                               ELSE r.fdm.lineIndex
             IN  [found |-> TRUE, fdm |-> r.fdm, out |-> CaretAndSpeakLine(r.fdm, targetLine)]
        ELSE BlockScanNoLeave(r.fdm, regex, direction, FALSE)

RECURSIVE BlockScan(_, _, _, _)
\* _navigateBlockFast: while fdm.move(direction) != 0
BlockScan(f, regex, direction, in_block) ==
    LET r == move(f, direction)
        text == getText(r.fdm, r.fdm.lineIndex)
        is_match == match(regex, text)
    IN  IF r.ret = 0 THEN [found |-> FALSE, fdm |-> r.fdm, out |-> <<>>]
        ELSE IF in_block THEN BlockScan(r.fdm, regex, direction, is_match)
        ELSE IF is_match
        THEN LET targetLine == IF direction = -1
                               THEN BlockTop(r.fdm, regex, r.fdm.lineIndex)
                               ELSE r.fdm.lineIndex
             IN  [found |-> TRUE, fdm |-> r.fdm, out |-> CaretAndSpeakLine(r.fdm, targetLine)]
        ELSE BlockScan(r.fdm, regex, direction, FALSE)

\* MarkdownEditorOverlay._navigateBlockFast
_navigateBlockFast(f, regex, direction, name, notFoundMessage) ==
    LET currentLineText == getText(f, f.lineIndex)
        in_block == match(regex, currentLineText)
        prevLine == f.lineIndex - 1
    IN  IF /\ direction = -1
           /\ in_block
           /\ prevLine >= 0
           /\ match(regex, getText(f, prevLine))
        THEN [fdm |-> f, out |-> CaretAndSpeakLine(f, BlockTop(f, regex, f.lineIndex))]
        ELSE WithNotFound(BlockScan(f, regex, direction, in_block), direction, name,
                          notFoundMessage)

\* str.strip()
strip(text) ==
    LET kept == {i \in 1 .. Len(text) : ~IsSpace(text[i])}
    IN  IF kept = {} THEN <<>> ELSE SubSeq(text, Min(kept), Max(kept))

\* mutant: the length of the line as it is, line ending included, is taken
has_infoNoStrip(text) == Len(text) > 3

\* has_info = len(text.strip()) > 3
has_info(text) == Len(strip(text)) > 3

\* mutant: no fence line is skipped from
ShouldSkipBlockNever(currentLineText, direction) == FALSE

\* mutant: every fence line is skipped from, in both directions
ShouldSkipBlockAlways(currentLineText, direction) == match("RE_CODE_BLOCK", currentLineText)

\* _navigateCodeFast: should_skip_block, from the caret line and the direction
ShouldSkipBlock(currentLineText, direction) ==
    LET on_boundary == match("RE_CODE_BLOCK", currentLineText)
    IN  IF on_boundary
        THEN IF direction = 1 THEN TRUE
             ELSE IF has_info(currentLineText) THEN FALSE ELSE TRUE
        ELSE FALSE

RECURSIVE OpeningFenceAbove(_, _)
\* _navigateCodeFast, the manual peek above a closing fence: the nearest line
\* above scanLine that is a fence with info text, or -1
OpeningFenceAbove(f, scanLine) ==
    IF scanLine > 0
    THEN LET prevText == getText(f, scanLine - 1)
         IN  IF match("RE_CODE_BLOCK", prevText) /\ has_info(prevText)
             THEN scanLine - 1
             ELSE OpeningFenceAbove(f, scanLine - 1)
    ELSE -1

RECURSIVE CodeScan(_, _, _)
\* _navigateCodeFast: while fdm.move(direction) != 0
CodeScan(f, direction, should_skip_block) ==
    LET r == move(f, direction)
        text == getText(r.fdm, r.fdm.lineIndex)
        matches == finditer("RE_INLINE_CODE", text)
    IN  IF r.ret = 0 THEN [found |-> FALSE, fdm |-> r.fdm, out |-> <<>>]
        ELSE IF match("RE_CODE_BLOCK", text)
        THEN IF direction = -1 /\ ~has_info(text)
                /\ OpeningFenceAbove(r.fdm, r.fdm.lineIndex) >= 0
             THEN \* fdm.updateCaret(scanLine); found = True; break; break
                  [found |-> TRUE, fdm |-> r.fdm,
                   out |-> <<updateCaret(r.fdm, OpeningFenceAbove(r.fdm, r.fdm.lineIndex))>>]
             ELSE [found |-> TRUE, fdm |-> r.fdm,
                   out |-> CaretAndSpeakLine(r.fdm, r.fdm.lineIndex)]
        ELSE IF ~should_skip_block /\ matches # <<>>
        THEN LET m == IF direction = 1 THEN matches[1] ELSE matches[Len(matches)]
             IN  [found |-> TRUE, fdm |-> r.fdm, out |-> JumpToMatch(r.fdm, text, m)]
        ELSE CodeScan(r.fdm, direction, should_skip_block)

\* MarkdownEditorOverlay._navigateCodeFast
_navigateCodeFast(f, direction, name, notFoundMessage) ==
    LET currentLineText == getText(f, f.lineIndex)
        on_boundary == match("RE_CODE_BLOCK", currentLineText)
        skip == ShouldSkipBlock(currentLineText, direction)
        lineStartOffset == getLineOffset(f, f.lineIndex)
        caret_char_offset == IF f.initialCaretOffset - lineStartOffset < 0 THEN 0
                             ELSE f.initialCaretOffset - lineStartOffset
        matches == finditer("RE_INLINE_CODE", currentLineText)
        target_match == TargetMatch(matches, direction, caret_char_offset)
    IN  IF ~on_boundary /\ target_match # <<>>
        THEN [fdm |-> f, out |-> JumpToMatch(f, currentLineText, target_match[1])]
        ELSE WithNotFound(CodeScan(f, direction, skip), direction, name, notFoundMessage)

\* mutant: the lookbehind is dropped, every | is a match
PipesOfAny(text) ==
    LET at == {i \in 0 .. Len(text) - 1 : text[i + 1] = "|"}
        RECURSIVE Sorted(_)
        Sorted(S) == IF S = {} THEN <<>> ELSE <<Min(S)>> \o Sorted(S \ {Min(S)})
    IN  Sorted(at)

\* the Python offsets of the matches of (?<!\\)\| in text, in order
PipesOf(text) ==
    LET at == {i \in 0 .. Len(text) - 1 : text[i + 1] = "|" /\ CharAt(text, i - 1) # "\\"}
        RECURSIVE Sorted(_)
        Sorted(S) == IF S = {} THEN <<>> ELSE <<Min(S)>> \o Sorted(S \ {Min(S)})
    IN  Sorted(at)

\* str.find(sub): the first Python offset at which sub occurs in text
find(text, sub) ==
    Min({k \in 0 .. Len(text) - Len(sub) : SubSeq(text, k + 1, k + Len(sub)) = sub})

\* MarkdownEditorOverlay._parse_table_row
_parse_table_row(text) ==
    LET pipes == PipesOf(text)
        Cell(i) ==
            LET cell_start == pipes[i] + 1
                cell_end == pipes[i + 1]
                cell_text == SubSeq(text, cell_start + 1, cell_end)
                stripped == strip(cell_text)
                content_start == IF stripped # <<>>
                                 THEN cell_start + find(cell_text, stripped)
                                 ELSE cell_start
            IN  [start |-> cell_start, end |-> cell_end, content_start |-> content_start,
                 content_end |-> content_start + Len(stripped), text |-> stripped]
    IN  IF pipes = <<>> THEN <<>> ELSE [i \in 1 .. Len(pipes) - 1 |-> Cell(i)]

\* mutant: the caret is put after the pipe, not at the trimmed content
_moveToTableCellAtStart(f, target_cell) ==
    <<EvCaret(HostMoveCharacters(getTextInfo(f, f.lineIndex), target_cell.start)),
      EvSpeak(target_cell.text)>>

\* MarkdownEditorOverlay._moveToTableCell, on the manager's current line
_moveToTableCell(f, target_cell) ==
    <<EvCaret(HostMoveCharacters(getTextInfo(f, f.lineIndex), target_cell.content_start)),
      EvSpeak(target_cell.text)>>

\* mutant: the column is not kept, the first cell of the new row is taken
TargetColFirst(current_col, new_cells) == 0

\* if target_col >= len(new_cells): target_col = len(new_cells) - 1
TargetCol(current_col, new_cells) ==
    IF current_col >= Len(new_cells) THEN Len(new_cells) - 1 ELSE current_col

\* MarkdownEditorOverlay._navigateTableFast
_navigateTableFast(f, row_dir, col_dir) ==
    LET currentLineText == getText(f, f.lineIndex)
        cells == _parse_table_row(currentLineText)
        lineStartOffset == getLineOffset(f, f.lineIndex)
        caret_char_offset == IF f.initialCaretOffset - lineStartOffset < 0 THEN 0
                             ELSE f.initialCaretOffset - lineStartOffset
        holding == {i \in 1 .. Len(cells) :
                       caret_char_offset >= cells[i].start /\ caret_char_offset <= cells[i].end}
        \* 0-based, as in the code
        current_col == IF holding = {} THEN 0 ELSE Min(holding) - 1
        r == move(f, row_dir)
        text == getText(r.fdm, r.fdm.lineIndex)
        new_cells == _parse_table_row(text)
        target_col == TargetCol(current_col, new_cells)
    IN  IF ~match("RE_TABLE", currentLineText) \/ cells = <<>>
        THEN [fdm |-> f, out |-> <<EvMessage(<<"Not inside a table">>)>>]
        ELSE IF col_dir # 0
        THEN IF current_col + col_dir < 0 \/ current_col + col_dir >= Len(cells)
             THEN [fdm |-> f, out |-> <<EvMessage(<<"Edge of table">>)>>]
             ELSE [fdm |-> f, out |-> _moveToTableCell(f, cells[current_col + col_dir + 1])]
        ELSE IF row_dir # 0
        THEN IF r.ret # 0 /\ match("RE_TABLE", text) /\ new_cells # <<>>
             THEN [fdm |-> r.fdm, out |-> _moveToTableCell(r.fdm, new_cells[target_col + 1])]
             ELSE [fdm |-> r.fdm, out |-> <<EvMessage(<<"Edge of table">>)>>]
        ELSE [fdm |-> f, out |-> <<>>]

\* mutant: the scan is left after its first step
BoundaryScanOneStep(f, matched_regex, direction, last_matching_line) ==
    LET r == move(f, direction)
    IN  IF r.ret = 0 \/ ~match(matched_regex, getText(r.fdm, r.fdm.lineIndex))
        THEN [fdm |-> r.fdm, last_matching_line |-> last_matching_line]
        ELSE [fdm |-> r.fdm, last_matching_line |-> r.fdm.lineIndex]

RECURSIVE BoundaryScan(_, _, _, _)
\* _find_block_boundary: while fdm.move(direction) != 0
BoundaryScan(f, matched_regex, direction, last_matching_line) ==
    LET r == move(f, direction)
    IN  IF r.ret = 0 \/ ~match(matched_regex, getText(r.fdm, r.fdm.lineIndex))
        THEN [fdm |-> r.fdm, last_matching_line |-> last_matching_line]
        ELSE BoundaryScan(r.fdm, matched_regex, direction, r.fdm.lineIndex)

\* MarkdownEditorOverlay._find_block_boundary with the manager opened; it
\* returns True
_find_block_boundary(f, direction) ==
    LET currentLineText == getText(f, f.lineIndex)
        BLOCK_PATTERNS == <<"RE_LIST_ITEM", "RE_TABLE", "RE_BLOCKQUOTE">>
        matching == {i \in 1 .. 3 : match(BLOCK_PATTERNS[i], currentLineText)}
        scan == BoundaryScan(f, BLOCK_PATTERNS[Min(matching)], direction, f.lineIndex)
    IN  IF matching = {}
        THEN [fdm |-> f, out |-> <<EvMessage(<<"Not inside a list, table, or blockquote">>)>>]
        ELSE [fdm |-> scan.fdm, out |-> CaretAndSpeakLine(scan.fdm, scan.last_matching_line)]

--------------------------------------------------------------------------------
\* Input documents

RECURSIVE SeqsUpTo(_, _)
\* every sequence over S of length at most n
SeqsUpTo(S, n) ==
    IF n = 0 THEN {<<>>}
    ELSE LET shorter == SeqsUpTo(S, n - 1)
         IN  shorter \cup {Append(s, c) : s \in {t \in shorter : Len(t) = n - 1}, c \in S}

\* documents for the offset index: every text of at most MaxLen characters over an
\* ASCII letter, a surrogate-pair character and the two line-ending characters
IndexChars == {"a", EMOJI, LF, CR}
IndexDocs == SeqsUpTo(IndexChars, MaxLen)

--------------------------------------------------------------------------------
\* The offset index on its own: a client opens a manager and steps its cursor

NoCmd == [script |-> "none"]

InitIndex ==
    /\ documentText \in IndexDocs
    /\ hostCaret \in 0 .. Len(documentText)
    /\ markdownBrowseMode = FALSE
    /\ fdm = FdmInit
    /\ pc = "index"
    /\ cmd = NoCmd
    /\ out = <<>>
    /\ ret = [op |-> "none"]

\* with FastDocumentManager(obj) as fdm, the host giving both ranges
Enter ==
    /\ ~fdm.opened
    /\ fdm' = FdmEnter(documentText, hostCaret)
    /\ ret' = [op |-> "enter"]
    /\ UNCHANGED <<documentText, hostCaret, markdownBrowseMode, pc, cmd, out>>

Deltas == {-2, -1, 1, 2}

\* fdm.move(increment)
Move ==
    /\ fdm.opened
    /\ \E increment \in Deltas :
          LET r == move(fdm, increment)
          IN  /\ fdm' = r.fdm
              /\ ret' = [op |-> "move", increment |-> increment, from |-> fdm.lineIndex,
                         value |-> r.ret]
    /\ UNCHANGED <<documentText, hostCaret, markdownBrowseMode, pc, cmd, out>>

\* fdm.getText(lineIndex), for line indexes inside and outside the table
GetText ==
    /\ fdm.opened
    /\ \E lineIndex \in -1 .. fdm.nLines + 1 :
          ret' = [op |-> "getText", lineIndex |-> lineIndex, value |-> getText(fdm, lineIndex)]
    /\ UNCHANGED <<documentText, hostCaret, markdownBrowseMode, fdm, pc, cmd, out>>

NextIndex == Enter \/ Move \/ GetText

SpecIndex == InitIndex /\ [][NextIndex]_vars

--------------------------------------------------------------------------------
\* The command surface: one script per gesture (navigator.py, the script_ methods)

Script(script, handler, regex, direction, name, focus_element, notFoundMessage, row_dir, col_dir) ==
    [script |-> script, handler |-> handler, regex |-> regex, direction |-> direction,
     name |-> name, focus_element |-> focus_element, notFoundMessage |-> notFoundMessage,
     row_dir |-> row_dir, col_dir |-> col_dir]

\* scripts that call _navigate: headings and heading levels 1 and 2 (line-anchored)
\* and footnotes (inline focus); the other scripts of the kind differ from these in
\* the pattern and the words only
NavigateScripts ==
    {Script("nextHeading", "_navigate", "RE_HEADING", 1, "heading", FALSE, "no next heading", 0, 0),
     Script("prevHeading", "_navigate", "RE_HEADING", -1, "heading", FALSE, "no previous heading", 0, 0),
     Script("nextFootnote", "_navigate", "RE_FOOTNOTE", 1, "footnote", TRUE, "no next footnote", 0, 0),
     Script("prevFootnote", "_navigate", "RE_FOOTNOTE", -1, "footnote", TRUE, "no previous footnote", 0, 0),
     Script("nextH1", "_navigate", "getHeadingRegex(1)", 1, "level 1 heading", FALSE, "No next heading at level 1", 0, 0),
     Script("prevH1", "_navigate", "getHeadingRegex(1)", -1, "level 1 heading", FALSE, "No previous heading at level 1", 0, 0),
     Script("nextH2", "_navigate", "getHeadingRegex(2)", 1, "level 2 heading", FALSE, "No next heading at level 2", 0, 0),
     Script("prevH2", "_navigate", "getHeadingRegex(2)", -1, "level 2 heading", FALSE, "No previous heading at level 2", 0, 0)}

\* scripts that call _navigateBlock: tables; the list and block quote scripts differ
\* from these in the pattern and the words only
BlockScripts ==
    {Script("nextTable", "_navigateBlock", "RE_TABLE", 1, "table", FALSE, "no next table", 0, 0),
     Script("prevTable", "_navigateBlock", "RE_TABLE", -1, "table", FALSE, "no previous table", 0, 0)}

\* the scripts that call _navigateCode
CodeScripts ==
    {Script("nextCodeBlock", "_navigateCode", "RE_CODE_BLOCK", 1, "code", FALSE, "no next code", 0, 0),
     Script("prevCodeBlock", "_navigateCode", "RE_CODE_BLOCK", -1, "code", FALSE, "no previous code", 0, 0)}

\* the scripts that call _navigateTable
TableScripts ==
    {Script("prevTableCell", "_navigateTable", "RE_TABLE", 0, "", FALSE, None, 0, -1),
     Script("nextTableCell", "_navigateTable", "RE_TABLE", 0, "", FALSE, None, 0, 1),
     Script("tableRowUp", "_navigateTable", "RE_TABLE", 0, "", FALSE, None, -1, 0),
     Script("tableRowDown", "_navigateTable", "RE_TABLE", 0, "", FALSE, None, 1, 0)}

\* script_endOfElement and script_startOfElement
BoundaryScripts ==
    {Script("endOfElement", "_find_block_boundary", "", 1, "", FALSE, None, 0, 0),
     Script("startOfElement", "_find_block_boundary", "", -1, "", FALSE, None, 0, 0)}

\* script_nextMathFormula and script_prevMathFormula: their call of _navigate names
\* patterns.RE_LATEX_MATH, which patterns.py does not define
MathScripts ==
    {Script("nextMathFormula", "_navigate", "RE_LATEX_MATH", 1, "math formula", TRUE, "no next math formula", 0, 0),
     Script("prevMathFormula", "_navigate", "RE_LATEX_MATH", -1, "math formula", TRUE, "no previous math formula", 0, 0)}

\* the names patterns.py defines
PatternNames ==
    {"RE_HEADING", "RE_LIST_ITEM", "RE_BLOCKQUOTE", "RE_TABLE", "RE_CODE_BLOCK",
     "RE_INLINE_CODE", "RE_LINK", "RE_IMAGE", "RE_SEPARATOR", "RE_CHECKBOX", "RE_BOLD",
     "RE_ITALIC", "RE_STRIKETHROUGH", "RE_FOOTNOTE"}

\* what the host answers when asked for the document and caret ranges
HostAnswers == {"ok", "NotImplementedError", "LookupError", "COMError"}

\* __enter__: the three exceptions of makeTextInfo leave it as RuntimeError
EnterOutcome(answer) == IF answer = "ok" THEN "ok" ELSE "RuntimeError"

\* the caret after the events of a command
CaretAfter(events, caret) ==
    LET moved == {i \in 1 .. Len(events) : events[i].ev = "caret"}
    IN  IF moved = {} THEN caret ELSE events[Max(moved)].at

\* the command as the handler received it
Received(script, notFoundMessage, answer) ==
    [script |-> script.script, handler |-> script.handler, regex |-> script.regex,
     direction |-> script.direction, name |-> script.name,
     focus_element |-> script.focus_element, notFoundMessage |-> notFoundMessage,
     row_dir |-> script.row_dir, col_dir |-> script.col_dir,
     caret |-> hostCaret, browse |-> markdownBrowseMode,
     snapshot |-> IF markdownBrowseMode THEN EnterOutcome(answer) ELSE "unopened"]

\* the handler returns without touching the text, the caret or the manager
Finish(events) ==
    /\ out' = events
    /\ pc' = "done"
    /\ UNCHANGED <<documentText, hostCaret, markdownBrowseMode, fdm, ret>>

\* the fast path ran on the opened manager and left res = [fdm, out]
FinishFast(res) ==
    /\ out' = res.out
    /\ fdm' = res.fdm
    /\ hostCaret' = CaretAfter(res.out, hostCaret)
    /\ pc' = "done"
    /\ UNCHANGED <<documentText, markdownBrowseMode, ret>>

\* mutant: the hand-off loses the first argument of the command
HandOffLosesArgs(fn, args) ==
    /\ out' = <<EvLegacy(fn, Tail(args))>>
    /\ pc' = "legacy"
    /\ UNCHANGED <<documentText, hostCaret, markdownBrowseMode, fdm, ret>>

\* the except clause of a dispatcher: the whole command goes to the legacy function
HandOff(fn, args) ==
    /\ out' = <<EvLegacy(fn, args)>>
    /\ pc' = "legacy"
    /\ UNCHANGED <<documentText, hostCaret, markdownBrowseMode, fdm, ret>>

\* a dispatcher: pass-through when browse mode is off, else the fast path on a
\* fresh manager, else (the host refusing the ranges) the legacy function
Dispatch(answer, fast, fn, args) ==
    IF ~markdownBrowseMode THEN Finish(<<EvSend>>)
    ELSE IF EnterOutcome(answer) = "ok" THEN FinishFast(fast)
    ELSE HandOff(fn, args)

\* script_toggleMarkdownBrowseMode and _reportBrowseModeState
script_toggleMarkdownBrowseMode ==
    /\ pc = "idle"
    /\ markdownBrowseMode' = ~markdownBrowseMode
    /\ cmd' = [Received(Script("toggleMarkdownBrowseMode", "toggle", "", 0, "", FALSE, None, 0, 0),
                        None, "ok") EXCEPT !.snapshot = "unopened"]
    /\ \E passThroughAudioIndication \in BOOLEAN :
          out' = IF passThroughAudioIndication
                 THEN <<EvSound(IF markdownBrowseMode' THEN "browseMode.wav" ELSE "focusMode.wav")>>
                 ELSE <<EvMessage(IF markdownBrowseMode' THEN <<"Markdown Browse Mode On">>
                                                         ELSE <<"Markdown Browse Mode Off">>)>>
    /\ pc' = "done"
    /\ UNCHANGED <<documentText, hostCaret, fdm, ret>>

\* MarkdownEditorOverlay._navigate, called by a script with its arguments (or
\* without a notFoundMessage, the parameter's default)
_navigate ==
    /\ pc = "idle"
    /\ \E script \in NavigateScripts, answer \in HostAnswers :
       \E notFoundMessage \in {script.notFoundMessage, None} :
          /\ cmd' = Received(script, notFoundMessage, answer)
          /\ Dispatch(answer,
                      _navigateFast(FdmEnter(documentText, hostCaret), hostCaret, script.regex,
                                    script.direction, script.name, script.focus_element,
                                    notFoundMessage),
                      "navigate_legacy",
                      <<script.regex, script.direction, script.name, script.focus_element,
                        notFoundMessage>>)

\* MarkdownEditorOverlay._navigateBlock
_navigateBlock ==
    /\ pc = "idle"
    /\ \E script \in BlockScripts, answer \in HostAnswers :
       \E notFoundMessage \in {script.notFoundMessage, None} :
          /\ cmd' = Received(script, notFoundMessage, answer)
          /\ Dispatch(answer,
                      _navigateBlockFast(FdmEnter(documentText, hostCaret), script.regex,
                                         script.direction, script.name, notFoundMessage),
                      "navigate_block_legacy",
                      <<script.regex, script.direction, script.name, notFoundMessage>>)

\* MarkdownEditorOverlay._navigateCode
_navigateCode ==
    /\ pc = "idle"
    /\ \E script \in CodeScripts, answer \in HostAnswers :
       \E notFoundMessage \in {script.notFoundMessage, None} :
          /\ cmd' = Received(script, notFoundMessage, answer)
          /\ Dispatch(answer,
                      _navigateCodeFast(FdmEnter(documentText, hostCaret), script.direction,
                                        script.name, notFoundMessage),
                      "navigate_code_legacy",
                      <<script.direction, script.name, notFoundMessage>>)

\* MarkdownEditorOverlay._navigateTable
_navigateTable ==
    /\ pc = "idle"
    /\ \E script \in TableScripts, answer \in HostAnswers :
          /\ cmd' = Received(script, None, answer)
          /\ Dispatch(answer,
                      _navigateTableFast(FdmEnter(documentText, hostCaret), script.row_dir,
                                         script.col_dir),
                      "navigate_table_legacy",
                      <<script.row_dir, script.col_dir>>)

\* script_endOfElement, script_startOfElement: _find_block_boundary returns False
\* when browse mode is off or the manager cannot be opened, and the script then
\* sends the gesture
script_endOfElement ==
    /\ pc = "idle"
    /\ \E script \in BoundaryScripts, answer \in HostAnswers :
          /\ cmd' = Received(script, None, answer)
          /\ IF markdownBrowseMode /\ EnterOutcome(answer) = "ok"
             THEN FinishFast(_find_block_boundary(FdmEnter(documentText, hostCaret),
                                                  script.direction))
             ELSE Finish(<<EvSend>>)

\* script_nextMathFormula, script_prevMathFormula: evaluating the arguments of the
\* call of _navigate raises AttributeError when the pattern is not a name of
\* patterns.py, before _navigate is entered
script_nextMathFormula ==
    /\ pc = "idle"
    /\ \E script \in MathScripts :
          /\ cmd' = [Received(script, script.notFoundMessage, "ok") EXCEPT !.snapshot = "unopened"]
          /\ IF script.regex \notin PatternNames
             THEN Finish(<<EvRaise("AttributeError")>>)
             ELSE Dispatch("ok",
                           _navigateFast(FdmEnter(documentText, hostCaret), hostCaret,
                                         script.regex, script.direction, script.name,
                                         script.focus_element, script.notFoundMessage),
                           "navigate_legacy",
                           <<script.regex, script.direction, script.name,
                             script.focus_element, script.notFoundMessage>>)

--------------------------------------------------------------------------------
\* legacy.py: the scanning fallback

\* the range the host gives for expand(UNIT_LINE) when it puts the start at start
HostRangeFrom(start) ==
    [start |-> start, end |-> HostExpandLine(start).end,
     text |-> SubSeq(documentText, start + 1, HostExpandLine(start).end)]

\* What the host answers to the native calls of one _step_line:
\*   line     ti.move(UNIT_LINE, direction): raises ("raise"), or returns res, the
\*            range expanded afterwards starting at start; or returns res and the
\*            expand or the comparison after it raises ("raiseAfter")
\*   collapse ti.collapse(end=...): returns or raises
\*   char     ti.move(UNIT_CHARACTER, +-1): returns res, the range expanded
\*            afterwards starting at start
\* An exception raised here is one of RuntimeError, ValueError, COMError.
NativeAnswer(lineKind, lineRes, lineStart, collapse, charRes, charStart) ==
    [line |-> [kind |-> lineKind, res |-> lineRes, start |-> lineStart],
     collapse |-> collapse,
     char |-> [res |-> charRes, start |-> charStart]]

\* the outcome of _step_line: what it returns, the range afterwards and the native
\* calls it made, in order
Stepped(ok, ti, calls) == [ok |-> ok, ti |-> ti, calls |-> calls]

\* Plan B of _step_line: character stepping from the edge of the original range;
\* calls are the native calls made before it
StepLinePlanB(tiOriginal, direction, native, calls) ==
    LET collapsedAnchorPoint == IF direction = 1 THEN tiOriginal.end ELSE tiOriginal.start
        expanded == HostRangeFrom(native.char.start)
        stepped == calls \o <<"collapse", "move(UNIT_CHARACTER)">>
        verified == stepped \o <<"expand", "compareEndPoints">>
    IN  IF native.collapse = "raise"
        THEN Stepped(FALSE, tiOriginal, calls \o <<"collapse">>)
        ELSE IF native.char.res = 0
        THEN Stepped(FALSE, CollapsedAt(collapsedAnchorPoint), stepped)
        ELSE IF direction = 1
        THEN IF expanded.start <= tiOriginal.start THEN Stepped(FALSE, expanded, verified)
             ELSE IF expanded.start < collapsedAnchorPoint
             THEN Stepped(FALSE, expanded, verified \o <<"compareEndPoints">>)
             ELSE Stepped(TRUE, expanded, verified \o <<"compareEndPoints">>)
        ELSE IF expanded.start >= tiOriginal.start THEN Stepped(FALSE, expanded, verified)
             ELSE Stepped(TRUE, expanded, verified)

\* mutant: a line move that reports a count is taken as progress
StepLineTrusting(ti, direction, native) ==
    IF native.line.kind = "raise" \/ native.line.res = 0
    THEN Stepped(FALSE, ti, <<"move(UNIT_LINE)">>)
    ELSE Stepped(TRUE, HostRangeFrom(native.line.start), <<"move(UNIT_LINE)", "expand">>)

\* mutant: a line move that raises or reports 0 is followed by Plan B
StepLineRecovering(ti, direction, native) ==
    LET expanded == HostRangeFrom(native.line.start)
        moved == IF direction = 1 THEN expanded.start > ti.start
                                  ELSE expanded.start < ti.start
    IN  IF native.line.kind = "ok" /\ native.line.res # 0 /\ moved
        THEN Stepped(TRUE, expanded, <<"move(UNIT_LINE)", "expand", "compareEndPoints">>)
        ELSE StepLinePlanB(ti, direction, native, <<"move(UNIT_LINE)">>)

\* _step_line on the host's answers
StepLineOn(ti, direction, native) ==
    LET expanded == HostRangeFrom(native.line.start)
        moved == IF direction = 1 THEN expanded.start > ti.start
                                  ELSE expanded.start < ti.start
    IN  IF native.line.kind = "raise" THEN Stepped(FALSE, ti, <<"move(UNIT_LINE)">>)
        ELSE IF native.line.res = 0 THEN Stepped(FALSE, ti, <<"move(UNIT_LINE)">>)
        ELSE IF native.line.kind = "raiseAfter"
        THEN Stepped(FALSE, CollapsedAt(native.line.start), <<"move(UNIT_LINE)", "expand">>)
        ELSE IF moved
        THEN Stepped(TRUE, expanded, <<"move(UNIT_LINE)", "expand", "compareEndPoints">>)
        ELSE StepLinePlanB(ti, direction, native,
                           <<"move(UNIT_LINE)", "expand", "compareEndPoints",
                             "setEndPoint", "setEndPoint">>)

\* the answers of a host whose line movement is faithful: a line move goes to the
\* adjacent line of the text and reports 0 at the first and last line
FaithfulAnswer(beyond, ti, direction) ==
    IF beyond = {} THEN NativeAnswer("ok", 0, ti.start, "ok", 0, ti.start)
    ELSE NativeAnswer("ok", direction, IF direction = 1 THEN Min(beyond) ELSE Max(beyond),
                      "ok", 0, ti.start)

\* _step_line(ti, direction) on the faithful host, which the legacy functions of
\* this model run on
_step_line(ti, direction) ==
    StepLineOn(ti, direction,
               FaithfulAnswer(IF direction = 1 THEN {q \in HostLineStarts : q > ti.start}
                                               ELSE {q \in HostLineStarts : q < ti.start},
                              ti, direction))

\* ti.collapse(); ti.move(UNIT_CHARACTER, m.start()); ti.updateCaret();
\* speech.speak([m.group()])
LegacyJump(ti, m) == <<EvCaret(HostMoveCharacters(ti, m.start)), EvSpeak(group(ti.text, m))>>

\* ti.collapse(); ti.updateCaret(); ti.expand(UNIT_LINE); speech.speakTextInfo(ti)
LegacyLine(ti) == <<EvCaret(ti.start), EvSpeakLine(ti)>>

\* ui.message of the not-found branch when a scan found nothing
OrNotFound(events, direction, name, notFoundMessage) ==
    IF events # <<>> THEN events
    ELSE <<EvMessage(NotFoundText(direction, name, notFoundMessage))>>

RECURSIVE LegacyFocusScan(_, _, _)
\* mutant: the first match of the line reached is taken in both directions
LegacyFocusBodyFirst(s, matches, regex, direction) ==
    IF ~s.ok THEN <<>>
    ELSE IF matches # <<>> THEN LegacyJump(s.ti, matches[1])
    ELSE LegacyFocusScan(s.ti, regex, direction)

\* the body of the loop, s the step and matches the matches of the line reached
LegacyFocusBody(s, matches, regex, direction) ==
    IF ~s.ok THEN <<>>
    ELSE IF matches # <<>>
    THEN LegacyJump(s.ti, IF direction = 1 THEN matches[1] ELSE matches[Len(matches)])
    ELSE LegacyFocusScan(s.ti, regex, direction)

LegacyFocusStep(s, regex, direction) ==
    LegacyFocusBody(s, finditer(regex, s.ti.text), regex, direction)

\* navigate_legacy, focus_element: while _step_line(tiScan, direction)
LegacyFocusScan(tiScan, regex, direction) ==
    LegacyFocusStep(_step_line(tiScan, direction), regex, direction)

RECURSIVE LegacyLineScan(_, _, _)
LegacyLineBody(s, regex, direction) ==
    IF ~s.ok THEN <<>>
    ELSE IF search(regex, s.ti.text) THEN LegacyLine(s.ti)
    ELSE LegacyLineScan(s.ti, regex, direction)

\* navigate_legacy, not focus_element: while _step_line(tiScan, direction)
LegacyLineScan(tiScan, regex, direction) ==
    LegacyLineBody(_step_line(tiScan, direction), regex, direction)

\* navigate_legacy, focus_element, with the target match of the caret line
LegacyFocusLine(tiLine, target_match, regex, direction, name, notFoundMessage) ==
    IF target_match # <<>> THEN LegacyJump(tiLine, target_match[1])
    ELSE OrNotFound(LegacyFocusScan(tiLine, regex, direction), direction, name, notFoundMessage)

\* navigate_legacy with tiLine, the line of the caret
NavigateLegacyOn(tiLine, caret_offset, regex, direction, name, focus_element, notFoundMessage) ==
    IF focus_element
    THEN LegacyFocusLine(tiLine, TargetMatch(finditer(regex, tiLine.text), direction, caret_offset),
                         regex, direction, name, notFoundMessage)
    ELSE OrNotFound(LegacyLineScan(tiLine, regex, direction), direction, name, notFoundMessage)

\* navigate_legacy, the caret range obtained
navigate_legacy(caret, regex, direction, name, focus_element, notFoundMessage) ==
    NavigateLegacyOn(HostExpandLine(caret), caret - HostExpandLine(caret).start, regex,
                     direction, name, focus_element, notFoundMessage)

RECURSIVE LegacyBlockTop(_, _)
LegacyBlockTopBody(target_ti, s, regex) ==
    IF ~s.ok \/ ~match(regex, s.ti.text) THEN target_ti ELSE LegacyBlockTop(s.ti, regex)

\* the walk to the top line of a block: while the line above is there and matches
LegacyBlockTop(target_ti, regex) ==
    LegacyBlockTopBody(target_ti, _step_line(target_ti, -1), regex)

RECURSIVE LegacyBlockScan(_, _, _, _)
\* mutant: a matching line is taken whether or not the caret's block was left
LegacyBlockSeenAny(ti, is_match, regex, direction, in_block) ==
    IF is_match
    THEN LegacyLine(IF direction = -1 THEN LegacyBlockTop(ti, regex) ELSE ti)
    ELSE LegacyBlockScan(ti, regex, direction, FALSE)

LegacyBlockSeen(ti, is_match, regex, direction, in_block) ==
    IF in_block THEN LegacyBlockScan(ti, regex, direction, is_match)
    ELSE IF is_match
    THEN LegacyLine(IF direction = -1 THEN LegacyBlockTop(ti, regex) ELSE ti)
    ELSE LegacyBlockScan(ti, regex, direction, FALSE)

LegacyBlockBody(s, regex, direction, in_block) ==
    IF ~s.ok THEN <<>>
    ELSE LegacyBlockSeen(s.ti, match(regex, s.ti.text), regex, direction, in_block)

\* navigate_block_legacy: while _step_line(tiScan, direction)
LegacyBlockScan(tiScan, regex, direction, in_block) ==
    LegacyBlockBody(_step_line(tiScan, direction), regex, direction, in_block)

\* navigate_block_legacy with tiLine, the line of the caret, and tiPrev, the step
\* above it
BlockLegacyOn(tiLine, in_block, tiPrev, regex, direction, name, notFoundMessage) ==
    IF direction = -1 /\ in_block /\ tiPrev.ok /\ match(regex, tiPrev.ti.text)
    THEN LegacyLine(LegacyBlockTop(tiLine, regex))
    ELSE OrNotFound(LegacyBlockScan(tiLine, regex, direction, in_block), direction, name,
                    notFoundMessage)

\* navigate_block_legacy, the caret range obtained
navigate_block_legacy(caret, regex, direction, name, notFoundMessage) ==
    BlockLegacyOn(HostExpandLine(caret), match(regex, HostExpandLine(caret).text),
                  _step_line(HostExpandLine(caret), -1), regex, direction, name, notFoundMessage)

RECURSIVE LegacySkipToFence(_, _)
LegacySkipBody(tiScan, s, direction) ==
    IF ~s.ok THEN tiScan
    ELSE IF match("RE_CODE_BLOCK", s.ti.text) THEN s.ti
    ELSE LegacySkipToFence(s.ti, direction)

\* while _step_line(tiScan, direction): if RE_CODE_BLOCK.match(tiScan.text): break
LegacySkipToFence(tiScan, direction) ==
    LegacySkipBody(tiScan, _step_line(tiScan, direction), direction)

RECURSIVE LegacyFenceAbove(_)
LegacyFenceAboveBody(s) ==
    IF ~s.ok THEN <<>>
    ELSE IF match("RE_CODE_BLOCK", s.ti.text) THEN <<s.ti>>
    ELSE LegacyFenceAbove(s.ti)

\* while _step_line(tiScanUp, -1): if RE_CODE_BLOCK.match(tiScanUp.text): the
\* fence found; <<>> when the scan runs out
LegacyFenceAbove(tiScanUp) == LegacyFenceAboveBody(_step_line(tiScanUp, -1))

\* the fence line tiScan met going up: the fence above it when it has no info
\* text and there is one, else itself
LegacyFenceTarget(tiScan, above, direction) ==
    IF direction = -1 /\ ~has_info(tiScan.text) /\ above # <<>> THEN above[1] ELSE tiScan

RECURSIVE LegacyCodeScan(_, _)
LegacyCodeSeen(ti, matches, direction) ==
    IF match("RE_CODE_BLOCK", ti.text)
    THEN LegacyLine(LegacyFenceTarget(ti, LegacyFenceAbove(ti), direction))
    ELSE IF matches # <<>>
    THEN LegacyJump(ti, IF direction = 1 THEN matches[1] ELSE matches[Len(matches)])
    ELSE LegacyCodeScan(ti, direction)

LegacyCodeBody(s, direction) ==
    IF ~s.ok THEN <<>>
    ELSE LegacyCodeSeen(s.ti, finditer("RE_INLINE_CODE", s.ti.text), direction)

\* navigate_code_legacy: while _step_line(tiScan, direction)
LegacyCodeScan(tiScan, direction) == LegacyCodeBody(_step_line(tiScan, direction), direction)

\* navigate_code_legacy with tiLine, the line of the caret, and the target match of
\* the caret line
CodeLegacyOn(tiLine, on_boundary, target_match, direction, name, notFoundMessage) ==
    IF ~on_boundary /\ target_match # <<>>
    THEN LegacyJump(tiLine, target_match[1])
    ELSE OrNotFound(
             LegacyCodeScan(
                 IF on_boundary /\ ~(direction = -1 /\ has_info(tiLine.text))
                 THEN LegacySkipToFence(tiLine, direction)
                 ELSE tiLine,
                 direction),
             direction, name, notFoundMessage)

CodeLegacyLine(tiLine, caret_offset, direction, name, notFoundMessage) ==
    CodeLegacyOn(tiLine, match("RE_CODE_BLOCK", tiLine.text),
                 TargetMatch(finditer("RE_INLINE_CODE", tiLine.text), direction, caret_offset),
                 direction, name, notFoundMessage)

\* navigate_code_legacy, the caret range obtained
navigate_code_legacy(caret, direction, name, notFoundMessage) ==
    CodeLegacyLine(HostExpandLine(caret), caret - HostExpandLine(caret).start, direction, name,
                   notFoundMessage)

RECURSIVE LegacyCells(_, _, _)
\* legacy._parse_table_row: for i in range(len(matches) - 1), cells.append(...)
LegacyCells(text, matches, i) ==
    IF i >= Len(matches) - 1 THEN <<>>
    ELSE LET cell_start == matches[i + 1] + 1
             cell_end == matches[i + 2]
             cell_text == SubSeq(text, cell_start + 1, cell_end)
             stripped == strip(cell_text)
             content_start == IF stripped # <<>> THEN cell_start + find(cell_text, stripped)
                              ELSE cell_start
             content_end == content_start + Len(stripped)
         IN  <<[start |-> cell_start, end |-> cell_end, content_start |-> content_start,
                content_end |-> content_end, text |-> stripped]>>
             \o LegacyCells(text, matches, i + 1)

\* legacy._parse_table_row
legacy_parse_table_row(text) ==
    IF PipesOf(text) = <<>> THEN <<>> ELSE LegacyCells(text, PipesOf(text), 0)

\* the column of the cell that holds the caret, the first one when none does
CurrentCol(cells, caret_char_relative) ==
    LET holding == {i \in 1 .. Len(cells) :
                       /\ caret_char_relative >= cells[i].start
                       /\ caret_char_relative <= cells[i].end}
    IN  IF holding = {} THEN 0 ELSE Min(holding) - 1

\* ti.collapse(); ti.move(UNIT_CHARACTER, target_cell["content_start"]);
\* ti.updateCaret(); speech.speak([target_cell["text"]])
LegacyCell(ti, target_cell) ==
    <<EvCaret(HostMoveCharacters(ti, target_cell.content_start)), EvSpeak(target_cell.text)>>

\* navigate_table_legacy, vertical: s the step to the next row, new_cells its cells
TableLegacyRow(s, new_cells, current_col) ==
    IF s.ok /\ match("RE_TABLE", s.ti.text) /\ new_cells # <<>>
    THEN LegacyCell(s.ti, new_cells[(IF current_col >= Len(new_cells) THEN Len(new_cells) - 1
                                     ELSE current_col) + 1])
    ELSE <<EvMessage(<<"Edge of table">>)>>

TableLegacyStep(s, current_col) ==
    TableLegacyRow(s, legacy_parse_table_row(s.ti.text), current_col)

\* navigate_table_legacy with tiLine, the line of the caret, and its cells
TableLegacyOn(tiLine, cells, current_col, row_dir, col_dir) ==
    IF ~match("RE_TABLE", tiLine.text) \/ cells = <<>> THEN <<EvSend>>
    ELSE IF col_dir # 0
    THEN IF current_col + col_dir < 0 \/ current_col + col_dir >= Len(cells)
         THEN <<EvMessage(<<"Edge of table">>)>>
         ELSE LegacyCell(tiLine, cells[current_col + col_dir + 1])
    ELSE IF row_dir # 0 THEN TableLegacyStep(_step_line(tiLine, row_dir), current_col)
    ELSE <<>>

TableLegacyLine(tiLine, cells, caret_char_relative, row_dir, col_dir) ==
    TableLegacyOn(tiLine, cells, CurrentCol(cells, caret_char_relative), row_dir, col_dir)

\* navigate_table_legacy, the caret range obtained through makeTextInfo
navigate_table_legacy(caret, row_dir, col_dir) ==
    TableLegacyLine(HostExpandLine(caret), legacy_parse_table_row(HostExpandLine(caret).text),
                    caret - HostExpandLine(caret).start, row_dir, col_dir)

\* the legacy function named by the hand-off, run on its arguments
LegacyEvents(fn, args) ==
    CASE fn = "navigate_legacy" ->
             navigate_legacy(hostCaret, args[1], args[2], args[3], args[4], args[5])
      [] fn = "navigate_block_legacy" ->
             navigate_block_legacy(hostCaret, args[1], args[2], args[3], args[4])
      [] fn = "navigate_code_legacy" ->
             navigate_code_legacy(hostCaret, args[1], args[2], args[3])
      [] fn = "navigate_table_legacy" ->
             navigate_table_legacy(hostCaret, args[1], args[2])

\* what the legacy function does on the host's answer for the caret range:
\* NotImplementedError and LookupError send the gesture, COMError is not caught
LegacyOutcome(answer, handoff) ==
    IF answer = "ok" THEN LegacyEvents(handoff.text[1], handoff.args)
    ELSE IF answer = "COMError" THEN <<EvRaise("COMError")>>
    ELSE <<EvSend>>

LegacyDone(events) ==
    /\ out' = out \o events
    /\ hostCaret' = CaretAfter(events, hostCaret)
    /\ pc' = "done"
    /\ UNCHANGED <<documentText, markdownBrowseMode, fdm, cmd, ret>>

\* the legacy function after the hand-off
Legacy ==
    /\ pc = "legacy"
    /\ \E answer \in HostAnswers : LegacyDone(LegacyOutcome(answer, out[Len(out)]))

\* the handler has returned: the manager is dropped with the command
Return ==
    /\ pc = "done"
    /\ pc' = "idle"
    /\ cmd' = NoCmd
    /\ out' = <<>>
    /\ fdm' = FdmInit
    /\ UNCHANGED <<documentText, hostCaret, markdownBrowseMode, ret>>

--------------------------------------------------------------------------------
\* The plugin on a document: documents are lines joined by \n, each line one of a
\* few Markdown constructs

Plain == <<"a">>
Heading == <<"#", " ", "a">>
Footnotes == <<"[", "^", "a", "]", "[", "^", "a", "]">>
Row == <<"|", "a", "|", "a", "|">>
FenceOpen == <<BACKTICK, BACKTICK, BACKTICK, "p">>
FenceClose == <<BACKTICK, BACKTICK, BACKTICK>>

RECURSIVE DocsOfLines(_, _)
\* the documents of 1 to n lines, each from bodies, joined by \n
DocsOfLines(bodies, n) ==
    IF n = 1 THEN bodies
    ELSE LET shorter == DocsOfLines(bodies, n - 1)
         IN  shorter \cup {d \o <<LF>> \o b : d \in shorter, b \in bodies}

\* the scenario of the specification: "# Title\n\nSome text\n## Sub\n"
ScenarioDoc ==
    <<"#", " ", "T", "i", "t", "l", "e", LF, LF, "S", "o", "m", "e", " ", "t", "e", "x", "t",
      LF, "#", "#", " ", "S", "u", "b", LF>>

InlineCodes == <<BACKTICK, "a", BACKTICK, " ", BACKTICK, "a", BACKTICK>>

InitWith(docs) ==
    /\ documentText \in docs
    /\ hostCaret \in 0 .. Len(documentText)
    /\ markdownBrowseMode = FALSE
    /\ fdm = FdmInit
    /\ pc = "idle"
    /\ cmd = NoCmd
    /\ out = <<>>
    /\ ret = [op |-> "none"]

\* every command of the surface, on documents of plain lines, table rows and fences
Init == InitWith(DocsOfLines({Plain, Row, FenceClose}, MaxLines))

Next ==
    \/ script_toggleMarkdownBrowseMode
    \/ _navigate
    \/ _navigateBlock
    \/ _navigateCode
    \/ _navigateTable
    \/ script_endOfElement
    \/ script_nextMathFormula
    \/ Legacy
    \/ Return

Spec == Init /\ [][Next]_vars

\* the generic and the block controller, on documents of plain lines, headings,
\* lines of two footnote references and table rows, and on the scenario document
InitNavigate ==
    InitWith(DocsOfLines({Plain, Heading, Footnotes, Row}, MaxLines) \cup {ScenarioDoc})

NextNavigate ==
    \/ script_toggleMarkdownBrowseMode
    \/ _navigate
    \/ _navigateBlock
    \/ Legacy
    \/ Return

SpecNavigate == InitNavigate /\ [][NextNavigate]_vars

\* the code controller, on documents of plain lines, opening and closing fences and
\* lines of two inline code spans
InitCode == InitWith(DocsOfLines({Plain, FenceOpen, FenceClose, InlineCodes}, MaxLines))

NextCode ==
    \/ script_toggleMarkdownBrowseMode
    \/ _navigateCode
    \/ Legacy
    \/ Return

SpecCode == InitCode /\ [][NextCode]_vars

\* _step_line on its own, on documents of one- and two-letter lines, the host
\* answering the native calls in every way: a line move that raises, reports 0,
\* moves anywhere or stays (a ghost move), a collapse that raises, a character
\* move that reports 0 or moves anywhere
TwoLetters == <<"a", "a">>

InitStep ==
    /\ documentText \in DocsOfLines({Plain, TwoLetters}, MaxLines)
    /\ hostCaret \in 0 .. Len(documentText)
    /\ markdownBrowseMode = TRUE
    /\ fdm = FdmInit
    /\ pc = "step"
    /\ cmd = NoCmd
    /\ out = <<>>
    /\ ret = [op |-> "none"]

NativeAnswers(direction) ==
    {NativeAnswer(lineKind, lineRes, lineStart, collapse, charRes, charStart) :
        lineKind \in {"ok", "raise", "raiseAfter"}, lineRes \in {0, direction},
        lineStart \in 0 .. Len(documentText), collapse \in {"ok", "raise"},
        charRes \in {0, direction}, charStart \in 0 .. Len(documentText)}

\* _step_line(ti, direction) called with the line of the caret
StepLine ==
    /\ pc = "step"
    /\ \E direction \in {1, -1} :
       \E native \in NativeAnswers(direction) :
          ret' = [op |-> "step", direction |-> direction,
                  tiOriginal |-> HostExpandLine(hostCaret), native |-> native,
                  result |-> StepLineOn(HostExpandLine(hostCaret), direction, native)]
    /\ pc' = "stepped"
    /\ UNCHANGED <<documentText, hostCaret, markdownBrowseMode, fdm, cmd, out>>

NextStep == StepLine

SpecStep == InitStep /\ [][NextStep]_vars

\* the table controller, on documents of plain lines, rows of two cells and rows of
\* one cell, the last cell with a blank before its text, and lines of a lone pipe
RowTwo == <<"|", "a", "|", " ", "a", "|">>
RowOne == <<"|", " ", "a", "|">>
RowBare == <<"|">>

InitTable == InitWith(DocsOfLines({Plain, RowTwo, RowOne, RowBare}, MaxLines))

NextTable ==
    \/ script_toggleMarkdownBrowseMode
    \/ _navigateTable
    \/ Legacy
    \/ Return

SpecTable == InitTable /\ [][NextTable]_vars

\* One line on its own: the classification of a fence line and the parsing of a
\* table row, applied to the line held in documentText

MaxRow == 6

\* fence lines: an indent, two to four backticks, info text of letters and blanks,
\* with or without the line ending; and the line "```python"
FencePython == <<BACKTICK, BACKTICK, BACKTICK, "p", "y", "t", "h", "o", "n">>

FenceLines ==
    {indent \o ticks \o info \o eol :
        indent \in {<<>>, <<" ">>},
        ticks \in {<<BACKTICK, BACKTICK>>, <<BACKTICK, BACKTICK, BACKTICK>>,
                   <<BACKTICK, BACKTICK, BACKTICK, BACKTICK>>},
        info \in SeqsUpTo({"p", " "}, MaxLen),
        eol \in {<<>>, <<LF>>}} \cup {FencePython}

\* table rows: every text of at most MaxRow characters over the pipe, the
\* backslash, a letter and the blank; and the row "| a | b\|c | d |"
RowEscaped ==
    <<"|", " ", "a", " ", "|", " ", "b", "\\", "|", "c", " ", "|", " ", "d", " ", "|">>

RowLines == SeqsUpTo({"|", "\\", "a", " "}, MaxRow) \cup {RowEscaped}

InitLine ==
    /\ documentText \in FenceLines \cup RowLines
    /\ hostCaret = 0
    /\ markdownBrowseMode = TRUE
    /\ fdm = FdmInit
    /\ pc = "line"
    /\ cmd = NoCmd
    /\ out = <<>>
    /\ ret = [op |-> "none"]

\* _navigateCodeFast on a caret line: on_boundary, has_info and should_skip_block
ClassifyFence ==
    /\ pc = "line"
    /\ \E direction \in {1, -1} :
          ret' = [op |-> "fence", direction |-> direction,
                  on_boundary |-> match("RE_CODE_BLOCK", documentText),
                  has_info |-> has_info(documentText),
                  should_skip_block |-> ShouldSkipBlock(documentText, direction)]
    /\ UNCHANGED <<documentText, hostCaret, markdownBrowseMode, fdm, pc, cmd, out>>

\* _parse_table_row of navigator.py and of legacy.py on a line
ParseRow ==
    /\ pc = "line"
    /\ ret' = [op |-> "row", cells |-> _parse_table_row(documentText),
               legacy |-> legacy_parse_table_row(documentText)]
    /\ UNCHANGED <<documentText, hostCaret, markdownBrowseMode, fdm, pc, cmd, out>>

NextLine == ClassifyFence \/ ParseRow

SpecLine == InitLine /\ [][NextLine]_vars

--------------------------------------------------------------------------------
\* getTextInfo on its own: a manager opened on a document, asked once for the
\* range of a line, inside and past the table, on every kind of backing control

ResolveChars == {"a", EMOJI, LF}

AppNames == {"chrome", "Firefox", "notepad"}

Controls ==
    {Control(TRUE, encoding, appName, FALSE, "ok") :
        encoding \in {"None", "utf_8", "failing"}, appName \in {"chrome", "notepad"}}
    \cup {Control(FALSE, "None", appName, hasIA2, flat) :
              appName \in AppNames, hasIA2 \in BOOLEAN,
              flat \in {"ok", "construct", "force", "expand"}}

InitResolve ==
    /\ documentText \in SeqsUpTo(ResolveChars, MaxLen)
    /\ hostCaret \in 0 .. Len(documentText)
    /\ markdownBrowseMode = TRUE
    /\ fdm = FdmEnter(documentText, hostCaret)
    /\ pc = "resolve"
    /\ cmd = NoCmd
    /\ out = <<>>
    /\ ret = [op |-> "none"]

\* fdm.getTextInfo(lineIndex) and fdm.getLineOffset(lineIndex)
GetTextInfo ==
    /\ pc = "resolve"
    /\ \E lineIndex \in 0 .. fdm.nLines + 1 :
       \E control \in Controls :
          ret' = [op |-> "getTextInfo", lineIndex |-> lineIndex, control |-> control,
                  lineOffset |-> getLineOffset(fdm, lineIndex),
                  result |-> getTextInfoOn(fdm, control, hostCaret, lineIndex)]
    /\ pc' = "resolved"
    /\ UNCHANGED <<documentText, hostCaret, markdownBrowseMode, fdm, cmd, out>>

NextResolve == GetTextInfo

SpecResolve == InitResolve /\ [][NextResolve]_vars

--------------------------------------------------------------------------------
\* Claims about the offset index (checked under SpecIndex)

NonDecreasing(a) == \A i \in 1 .. Len(a) - 1 : a[i] <= a[i + 1]

\* C1: once the manager is opened on any text, the two offset tables have one
\* entry per line, both start at 0 and both are non-decreasing.
C1_OffsetTables ==
    fdm.opened =>
        /\ Len(fdm.pyOffsets) = fdm.nLines
        /\ Len(fdm.utf16Offsets) = fdm.nLines
        /\ fdm.pyOffsets[1] = 0
        /\ fdm.utf16Offsets[1] = 0
        /\ NonDecreasing(fdm.pyOffsets)
        /\ NonDecreasing(fdm.utf16Offsets)

\* opened on a text that mixes a surrogate-pair character, a \r\n pair and a
\* bare \r or \n, so that the tables differ and have three entries or more
C1_Witness ==
    /\ fdm.opened
    /\ \E i \in 1 .. Len(documentText) : documentText[i] = EMOJI
    /\ \E i \in 1 .. Len(documentText) - 1 :
          documentText[i] = CR /\ documentText[i + 1] = LF
    /\ fdm.nLines >= 3
    /\ fdm.utf16Offsets # fdm.pyOffsets

RECURSIVE ConcatLines(_, _)
\* getText(i) \o getText(i + 1) \o ... \o getText(nLines - 1)
ConcatLines(f, i) ==
    IF i >= f.nLines THEN <<>> ELSE getText(f, i) \o ConcatLines(f, i + 1)

\* C2: the lines' texts, concatenated in order, are the document; a line index
\* outside [0, nLines) gives the empty text.
C2_RoundTrip ==
    fdm.opened =>
        /\ ConcatLines(fdm, 0) = documentText
        /\ \A i \in {-2, -1, fdm.nLines, fdm.nLines + 1} : getText(fdm, i) = <<>>

\* getText has been called on the last of three or more lines, which is not
\* empty and follows a line that carries a two-character terminator
C2_Witness ==
    /\ ret.op = "getText"
    /\ fdm.nLines >= 3
    /\ ret.lineIndex = fdm.nLines - 1
    /\ ret.value # <<>>
    /\ \E i \in 0 .. fdm.nLines - 2 :
          LET t == getText(fdm, i)
          IN  Len(t) >= 2 /\ t[Len(t) - 1] = CR /\ t[Len(t)] = LF

\* line i holds the caret offset c: it starts at or before c and the next line,
\* if there is one, starts after c
HoldsCaret(f, i, c) ==
    /\ f.pyOffsets[i + 1] <= c
    /\ i + 1 < f.nLines => c < f.pyOffsets[i + 2]

\* C3: on open the cursor is the one line that holds the caret offset (the last
\* line when the caret is at or after the last line start); it is in [0, nLines).
C3_CaretLine ==
    fdm.opened =>
        /\ fdm.originalLineIndex \in 0 .. fdm.nLines - 1
        /\ HoldsCaret(fdm, fdm.originalLineIndex, fdm.initialCaretOffset)
        /\ \A j \in 0 .. fdm.nLines - 1 :
              HoldsCaret(fdm, j, fdm.initialCaretOffset) => j = fdm.originalLineIndex
        /\ ret.op = "enter" => fdm.lineIndex = fdm.originalLineIndex

\* just opened with the caret exactly at the start of a middle line
C3_Witness ==
    /\ ret.op = "enter"
    /\ fdm.nLines >= 3
    /\ fdm.lineIndex = 1
    /\ fdm.initialCaretOffset = fdm.pyOffsets[2]
    /\ fdm.initialCaretOffset = hostCaret

\* C4: the cursor stays in [0, nLines); move(+1) returns 0 exactly on the last
\* line, move(-1) exactly on line 0; a move that returns 0 leaves the cursor alone
\* and any other returns its argument and moves the cursor by it.
C4_MoveBounded ==
    fdm.opened =>
        /\ fdm.lineIndex \in 0 .. fdm.nLines - 1
        /\ ret.op = "move" =>
              /\ ret.increment = 1 => (ret.value = 0 <=> ret.from = fdm.nLines - 1)
              /\ ret.increment = -1 => (ret.value = 0 <=> ret.from = 0)
              /\ ret.value = 0 => fdm.lineIndex = ret.from
              /\ ret.value # 0 =>
                    /\ ret.value = ret.increment
                    /\ fdm.lineIndex = ret.from + ret.increment

\* move(+1) refused on the last line, which earlier moves had reached
C4_Witness ==
    /\ ret.op = "move"
    /\ ret.increment = 1
    /\ ret.value = 0
    /\ fdm.lineIndex = fdm.nLines - 1
    /\ fdm.lineIndex > fdm.originalLineIndex

--------------------------------------------------------------------------------
\* Claims about the commands

\* the document as the claims read it: a line starts at 0 and after each \n, each
\* \r\n and each lone \r
LineStarts ==
    {p \in 0 .. Len(documentText) :
        \/ p = 0
        \/ p > 0 /\ documentText[p] = LF
        \/ p > 0 /\ documentText[p] = CR /\ (p = Len(documentText) \/ documentText[p + 1] # LF)}

NumLines == Cardinality(LineStarts)

\* the 0-based line that holds position p
LineOf(p) == Cardinality({q \in LineStarts : q <= p}) - 1

StartOfLine(k) == CHOOSE q \in LineStarts : Cardinality({r \in LineStarts : r < q}) = k

\* the text of line k, its line ending included
TextOfLine(k) ==
    SubSeq(documentText, StartOfLine(k) + 1,
           IF k + 1 < NumLines THEN StartOfLine(k + 1) ELSE Len(documentText))

LinesBeyond(line, direction) ==
    IF direction = 1 THEN line + 1 .. NumLines - 1 ELSE 0 .. line - 1

\* a command has returned
Returned == pc = "done" /\ cmd.handler # "toggle"

\* a command has returned from the fast path
FastDone == Returned /\ cmd.browse /\ cmd.snapshot = "ok"

\* the one event of a not-found message for the command
NotFoundOf(c) ==
    EvMessage(IF c.notFoundMessage # None THEN <<c.notFoundMessage>>
              ELSE IF c.direction = 1 THEN <<"no next %s found", c.name>>
              ELSE <<"no previous %s found", c.name>>)

\* C5: with browse mode off, every navigation command sends the gesture to the host
\* exactly once and does nothing else: the manager is not opened, the legacy function
\* is not entered, the caret stays, nothing is spoken or shown.
C5_PassThrough ==
    (pc \in {"done", "legacy"} /\ cmd.handler # "toggle" /\ ~cmd.browse) =>
        /\ pc = "done"
        /\ out = <<EvSend>>
        /\ hostCaret = cmd.caret
        /\ ~fdm.opened

\* the math formula command with browse mode off has ended in AttributeError, the
\* gesture not sent
C5_Witness ==
    /\ pc = "done"
    /\ cmd.script = "nextMathFormula"
    /\ ~cmd.browse
    /\ out = <<EvRaise("AttributeError")>>

\* the call of the legacy function that passes the command on unchanged
LegacyCall(c) ==
    CASE c.handler = "_navigate" ->
             EvLegacy("navigate_legacy",
                      <<c.regex, c.direction, c.name, c.focus_element, c.notFoundMessage>>)
      [] c.handler = "_navigateBlock" ->
             EvLegacy("navigate_block_legacy",
                      <<c.regex, c.direction, c.name, c.notFoundMessage>>)
      [] c.handler = "_navigateCode" ->
             EvLegacy("navigate_code_legacy", <<c.direction, c.name, c.notFoundMessage>>)
      [] c.handler = "_navigateTable" ->
             EvLegacy("navigate_table_legacy", <<c.row_dir, c.col_dir>>)
      [] OTHER -> EvLegacy("none", <<>>)

\* the manager could not be opened for a command given with browse mode on
SnapshotFailed == pc \in {"done", "legacy"} /\ cmd.browse /\ cmd.snapshot = "RuntimeError"

\* C6 as written: every command whose manager cannot be opened is handed to the
\* legacy function with its parameters, the fast path having done nothing before.
C6_EveryCommandHandedOff ==
    SnapshotFailed => out # <<>> /\ out[1] = LegacyCall(cmd)

\* C6: a generic, block, code or table command whose manager cannot be opened is
\* handed to its legacy function once, with the same pattern, direction, name,
\* focus flag and not-found message, before any caret update, speech or message;
\* a jump to the start or end of an element sends the gesture instead.
C6_HandOff ==
    SnapshotFailed =>
        IF cmd.handler = "_find_block_boundary"
        THEN pc = "done" /\ out = <<EvSend>> /\ hostCaret = cmd.caret /\ ~fdm.opened
        ELSE /\ out # <<>>
             /\ out[1] = LegacyCall(cmd)
             /\ \A i \in 2 .. Len(out) : out[i].ev # "legacy"
             /\ ~fdm.opened
             /\ pc = "legacy" => out = <<LegacyCall(cmd)>> /\ hostCaret = cmd.caret

\* a footnote command with an override message stands handed to navigate_legacy
C6_Witness ==
    /\ pc = "legacy"
    /\ cmd.browse
    /\ cmd.snapshot = "RuntimeError"
    /\ cmd.handler = "_navigate"
    /\ cmd.focus_element
    /\ cmd.notFoundMessage # None
    /\ out = <<LegacyCall(cmd)>>

\* C7: a fast-path command that selected a destination updates the caret there and
\* then speaks exactly once, the matched text or the line of the destination; no
\* caret update goes without speech.
C7_FoundSpeaks ==
    (FastDone /\ cmd.handler \in {"_navigate", "_navigateBlock", "_navigateCode"}
              /\ \E i \in 1 .. Len(out) : out[i].ev = "caret") =>
        /\ Len(out) = 2
        /\ out[1].ev = "caret"
        /\ hostCaret = out[1].at
        /\ out[2].ev \in {"speak", "speakLine"}
        /\ out[2].ev = "speakLine" =>
               /\ out[2].at = out[1].at
               /\ out[2].text = TextOfLine(LineOf(out[1].at))
        /\ out[2].ev = "speak" =>
               out[2].text = SubSeq(documentText, out[1].at + 1, out[1].at + Len(out[2].text))

\* going back from below a closed code block, the caret went to the opening fence
\* and nothing was spoken
C7_Witness ==
    /\ FastDone
    /\ cmd.script = "prevCodeBlock"
    /\ Len(out) = 1
    /\ out[1].ev = "caret"
    /\ hostCaret # cmd.caret
    /\ match("RE_CODE_BLOCK", TextOfLine(LineOf(hostCaret)))

\* whether line k counts as a match for the command: a line the pattern matches
\* somewhere (inline focus), from its start (block) or as searched (line-anchored)
LineHas(c, k) ==
    IF c.handler = "_navigateBlock" THEN match(c.regex, TextOfLine(k))
    ELSE IF c.focus_element THEN finditer(c.regex, TextOfLine(k)) # <<>>
    ELSE search(c.regex, TextOfLine(k))

\* the matches of the pattern in the document: position, line and matched text
MatchesOnLine(regex, k) ==
    LET text == TextOfLine(k)
        matches == finditer(regex, text)
        start == StartOfLine(k)
    IN  {[pos |-> start + matches[i].start, line |-> k, text |-> group(text, matches[i])] :
            i \in 1 .. Len(matches)}

MatchesInDocument(regex) == UNION {MatchesOnLine(regex, k) : k \in 0 .. NumLines - 1}

\* the matches that start strictly beyond the caret in the direction of travel
BeyondCaret(c) ==
    {x \in MatchesInDocument(c.regex) :
        IF c.direction = 1 THEN x.pos > c.caret ELSE x.pos < c.caret}

\* nothing is left for the command in its direction: no matching line beyond the
\* caret line and, for inline focus, no match beyond the caret on its own line
NothingBeyond(c) ==
    /\ \A k \in LinesBeyond(LineOf(c.caret), c.direction) : ~LineHas(c, k)
    /\ (c.handler = "_navigate" /\ c.focus_element) => BeyondCaret(c) = {}

LandingOnLine(k) ==
    <<EvCaret(StartOfLine(k)),
      [ev |-> "speakLine", at |-> StartOfLine(k), text |-> TextOfLine(k), args |-> <<>>]>>

\* the matching lines strictly beyond the caret line
LinesAhead(c) == {k \in LinesBeyond(LineOf(c.caret), c.direction) : LineHas(c, k)}

\* C9: a line-anchored command never lands on the caret's own line: it lands on the
\* nearest matching line strictly after (forward) or before (backward) it, speaking
\* that line; on "# Title\n\nSome text\n## Sub\n" with the caret at the document
\* start, next heading lands on line 3, speaks it and shows no message.
C9_LineAnchored ==
    /\ (FastDone /\ cmd.handler = "_navigate" /\ ~cmd.focus_element) =>
           LET ahead == LinesAhead(cmd)
               k == IF cmd.direction = 1 THEN Min(ahead) ELSE Max(ahead)
           IN  IF ahead = {}
               THEN out = <<NotFoundOf(cmd)>> /\ hostCaret = cmd.caret
               ELSE /\ k # LineOf(cmd.caret)
                    /\ out = LandingOnLine(k)
                    /\ hostCaret = StartOfLine(k)
    /\ (FastDone /\ documentText = ScenarioDoc /\ cmd.caret = 0 /\ cmd.script = "nextHeading") =>
           /\ out = LandingOnLine(3)
           /\ TextOfLine(3) = <<"#", "#", " ", "S", "u", "b", LF>>
           /\ hostCaret = 19

\* next heading has run on the scenario document from its start, where the caret
\* line is itself a heading
C9_Witness ==
    /\ FastDone
    /\ documentText = ScenarioDoc
    /\ cmd.caret = 0
    /\ cmd.script = "nextHeading"
    /\ search(cmd.regex, TextOfLine(0))
    /\ hostCaret = 19

--------------------------------------------------------------------------------
\* Claims about the block commands (checked under SpecNavigate)

\* line k is there and the pattern of the command matches it from its start
BlockLine(c, k) == k \in 0 .. NumLines - 1 /\ match(c.regex, TextOfLine(k))

\* the top line of the contiguous run of matching lines that holds line k
TopOfBlock(c, k) == Min({j \in 0 .. k : \A i \in j .. k : BlockLine(c, i)})

\* a block command has returned from the fast path
BlockDone == FastDone /\ cmd.handler = "_navigateBlock"

BlockHeadsBelow(c) ==
    {k \in LinesBeyond(LineOf(c.caret), 1) : BlockLine(c, k) /\ ~BlockLine(c, k - 1)}

EventsOf(o) == IF o # <<>> /\ o[1].ev = "legacy" THEN Tail(o) ELSE o

\* the lines above the caret line at which a block ends
BlockTailsAbove(c) ==
    {k \in LinesBeyond(LineOf(c.caret), -1) : BlockLine(c, k) /\ ~BlockLine(c, k + 1)}

\* C12: a backward block command, on the fast path and in the legacy function, lands
\* on the top line of a contiguous run of matching lines: the top of the caret's own
\* block when the caret line and the line above it match, else the top of the
\* nearest block that ends above the caret's block; with no such block the
\* not-found message is shown and the caret stays.
C12_BackwardTop ==
    (Returned /\ cmd.browse /\ cmd.handler = "_navigateBlock" /\ cmd.direction = -1
              /\ EventsOf(out) \notin {<<EvSend>>, <<EvRaise("COMError")>>}) =>
        LET line == LineOf(cmd.caret)
            tails == BlockTailsAbove(cmd)
            d == IF BlockLine(cmd, line) /\ BlockLine(cmd, line - 1)
                 THEN TopOfBlock(cmd, line)
                 ELSE TopOfBlock(cmd, Max(tails))
        IN  IF ~(BlockLine(cmd, line) /\ BlockLine(cmd, line - 1)) /\ tails = {}
            THEN EventsOf(out) = <<NotFoundOf(cmd)>> /\ hostCaret = cmd.caret
            ELSE /\ EventsOf(out) = LandingOnLine(d)
                 /\ hostCaret = StartOfLine(d)
                 /\ BlockLine(cmd, d)
                 /\ d = 0 \/ ~BlockLine(cmd, d - 1)

\* previous table from a line that is no row, below a table of two rows: the caret
\* went to the upper row
C12_Witness ==
    /\ BlockDone
    /\ cmd.direction = -1
    /\ ~BlockLine(cmd, LineOf(cmd.caret))
    /\ BlockLine(cmd, LineOf(cmd.caret) - 1)
    /\ BlockLine(cmd, LineOf(cmd.caret) - 2)
    /\ hostCaret = StartOfLine(LineOf(cmd.caret) - 2)

--------------------------------------------------------------------------------
\* Claims about a single line (checked under SpecLine)

RECURSIVE DropSpaceLeft(_)
\* the text without its leading white space
DropSpaceLeft(text) ==
    IF text # <<>> /\ IsSpace(Head(text)) THEN DropSpaceLeft(Tail(text)) ELSE text

RECURSIVE DropSpaceRight(_)
\* the text without its trailing white space
DropSpaceRight(text) ==
    IF text # <<>> /\ IsSpace(text[Len(text)])
    THEN DropSpaceRight(SubSeq(text, 1, Len(text) - 1))
    ELSE text

Trimmed(text) == DropSpaceRight(DropSpaceLeft(text))

RECURSIVE DropTicks(_)
DropTicks(text) ==
    IF text # <<>> /\ Head(text) = BACKTICK THEN DropTicks(Tail(text)) ELSE text

\* the info text of a fence line: what follows its backticks, trimmed
InfoText(text) == Trimmed(DropTicks(Trimmed(text)))

\* the caret line was taken as an opening fence: going backward does not skip
TakenAsOpening == ret.has_info /\ (ret.direction = -1 => ~ret.should_skip_block)

\* the caret line was taken as a closing fence: going backward skips
TakenAsClosing == ~ret.has_info /\ ret.should_skip_block

\* C13: a line the fence pattern matches is taken as exactly one of opening and
\* closing fence: as opening when its info text is longer than 3 characters, as
\* closing when its trimmed text has at most 3 characters; "```python" is taken as
\* opening and "```" as closing.
C13_FenceClass ==
    (ret.op = "fence" /\ ret.on_boundary) =>
        /\ TakenAsOpening # TakenAsClosing
        /\ Len(InfoText(documentText)) > 3 => TakenAsOpening
        /\ Len(Trimmed(documentText)) <= 3 => TakenAsClosing
        /\ documentText = FencePython => TakenAsOpening
        /\ documentText \in {FenceClose, FenceClose \o <<LF>>} => TakenAsClosing
        /\ ret.direction = 1 => ret.should_skip_block

\* "```python" was classified for the backward direction: it has info text and is
\* not skipped from
C13_Witness ==
    /\ ret.op = "fence"
    /\ documentText = FencePython
    /\ ret.direction = -1
    /\ ret.on_boundary
    /\ ret.has_info
    /\ ~ret.should_skip_block

\* the 1-based positions of the pipes of the text that no backslash precedes
Bars(text) == {i \in 1 .. Len(text) : text[i] = "|" /\ (i = 1 \/ text[i - 1] # "\\")}

\* C17: a row is split at the pipes that no backslash immediately precedes and at
\* no other place: k such pipes give max(k - 1, 0) cells, each the text between two
\* consecutive ones, trimmed, an escaped pipe staying in the text of its cell; what
\* comes before the first and after the last such pipe is no cell; the row
\* "| a | b\|c | d |" gives the cells "a", "b\|c", "d"; the parser of the fast path
\* and the parser of the legacy path give the same cells.
C17_TableRow ==
    ret.op = "row" =>
        LET bars == Bars(documentText)
            cells == ret.cells
        IN  /\ Len(cells) = IF bars = {} THEN 0 ELSE Cardinality(bars) - 1
            /\ \A i \in 1 .. Len(cells) :
                   /\ cells[i].start \in bars
                   /\ cells[i].end + 1 \in bars
                   /\ \A b \in bars : ~(cells[i].start < b /\ b < cells[i].end + 1)
                   /\ cells[i].text =
                          Trimmed(SubSeq(documentText, cells[i].start + 1, cells[i].end))
                   /\ i > 1 => cells[i].start = cells[i - 1].end + 1
            /\ cells # <<>> =>
                   /\ cells[1].start = Min(bars)
                   /\ cells[Len(cells)].end + 1 = Max(bars)
            /\ documentText = RowEscaped =>
                   [i \in 1 .. Len(cells) |-> cells[i].text]
                       = << <<"a">>, <<"b", "\\", "|", "c">>, <<"d">> >>
            /\ ret.legacy = cells

\* the row "| a | b\|c | d |" was parsed into three cells, the second holding the
\* escaped pipe
C17_Witness ==
    /\ ret.op = "row"
    /\ documentText = RowEscaped
    /\ Len(ret.cells) = 3
    /\ ret.cells[2].text = <<"b", "\\", "|", "c">>
    /\ Len(ret.legacy) = 3

--------------------------------------------------------------------------------
\* Claims about the code commands (checked under SpecCode)

\* line k is there and is a fence line
FenceLine(k) == k \in 0 .. NumLines - 1 /\ match("RE_CODE_BLOCK", TextOfLine(k))

\* a fence line with more than the fence on it, and a bare one
OpeningLine(k) == FenceLine(k) /\ Len(Trimmed(TextOfLine(k))) > 3
ClosingLine(k) == FenceLine(k) /\ Len(Trimmed(TextOfLine(k))) <= 3

\* a code command has returned from the fast path
CodeDone == FastDone /\ cmd.handler = "_navigateCode"

\* the fence lines beyond the caret line in the direction of the command
FencesBeyond(c) == {k \in LinesBeyond(LineOf(c.caret), c.direction) : FenceLine(k)}

C15_BackToOpening ==
    (CodeDone /\ cmd.direction = -1 /\ ClosingLine(LineOf(cmd.caret))
              /\ FencesBeyond(cmd) # {}) =>
        hostCaret = StartOfLine(Max(FencesBeyond(cmd)))

\* previous code from a closing fence whose nearest fence above is bare and has a
\* fence with info text above it: the caret went past the nearest fence
C15_Witness ==
    /\ CodeDone
    /\ cmd.direction = -1
    /\ ClosingLine(LineOf(cmd.caret))
    /\ ClosingLine(LineOf(cmd.caret) - 1)
    /\ OpeningLine(LineOf(cmd.caret) - 2)
    /\ hostCaret = StartOfLine(LineOf(cmd.caret) - 2)

\* the lines above the caret line that hold a fence or an inline code span
CodeLinesAbove(c) ==
    {k \in LinesBeyond(LineOf(c.caret), -1) :
        FenceLine(k) \/ MatchesOnLine("RE_INLINE_CODE", k) # {}}

--------------------------------------------------------------------------------
\* Claims about the table commands (checked under SpecTable)

\* the j-th (from 0) pipe of the text that no backslash precedes
NthBar(text, j) == CHOOSE b \in Bars(text) : Cardinality({x \in Bars(text) : x < b}) = j

NumCells(text) == IF Bars(text) = {} THEN 0 ELSE Cardinality(Bars(text)) - 1

\* cell j (from 0) of a row: the offsets after its left pipe and of its right pipe,
\* the text between them, and the offset of that text's first non-blank character
CellStart(text, j) == NthBar(text, j)
CellEnd(text, j) == NthBar(text, j + 1) - 1
CellBody(text, j) == SubSeq(text, CellStart(text, j) + 1, CellEnd(text, j))
ContentStart(text, j) ==
    IF Trimmed(CellBody(text, j)) = <<>> THEN CellStart(text, j)
    ELSE CellStart(text, j) + Len(CellBody(text, j)) - Len(DropSpaceLeft(CellBody(text, j)))

\* the column of the caret: the first cell whose span, pipes' edges included, holds
\* the offset of the caret in its line, the first column when none does
ColumnAt(text, offset) ==
    LET holding == {j \in 0 .. NumCells(text) - 1 :
                       CellStart(text, j) <= offset /\ offset <= CellEnd(text, j)}
    IN  IF holding = {} THEN 0 ELSE Min(holding)

\* line k is there and is a table row with at least one cell
IsRow(k) ==
    /\ k \in 0 .. NumLines - 1
    /\ match("RE_TABLE", TextOfLine(k))
    /\ NumCells(TextOfLine(k)) >= 1

\* caret and speech of a landing on cell j of line k
CellLanding(k, j) ==
    <<EvCaret(StartOfLine(k) + ContentStart(TextOfLine(k), j)),
      EvSpeak(Trimmed(CellBody(TextOfLine(k), j)))>>

EdgeOfTable == <<EvMessage(<<"Edge of table">>)>>

\* a table command given on a row has run to its end, on the fast path or in the
\* legacy function with the caret range obtained
TableDone ==
    /\ Returned
    /\ cmd.browse
    /\ cmd.handler = "_navigateTable"
    /\ IsRow(LineOf(cmd.caret))
    /\ EventsOf(out) \notin {<<EvSend>>, <<EvRaise("COMError")>>}

\* C18: a move by one column from column c of a row of n cells announces "Edge of
\* table", the caret left where it was, when c + dir is outside 0 .. n - 1 (no
\* wrap); else it puts the caret at the start of the trimmed content of cell
\* c + dir on the same line and speaks that cell's trimmed text.
C18_Horizontal ==
    (TableDone /\ cmd.col_dir # 0) =>
        LET line == LineOf(cmd.caret)
            text == TextOfLine(line)
            target == ColumnAt(text, cmd.caret - StartOfLine(line)) + cmd.col_dir
        IN  IF target < 0 \/ target >= NumCells(text)
            THEN EventsOf(out) = EdgeOfTable /\ hostCaret = cmd.caret
            ELSE /\ EventsOf(out) = CellLanding(line, target)
                 /\ hostCaret = StartOfLine(line) + ContentStart(text, target)
                 /\ LineOf(hostCaret) = line

\* next cell from the first cell of a row of two: the caret is in the second cell,
\* after its blank
C18_Witness ==
    /\ TableDone
    /\ cmd.snapshot = "ok"
    /\ cmd.col_dir = 1
    /\ NumCells(TextOfLine(LineOf(cmd.caret))) = 2
    /\ ColumnAt(TextOfLine(LineOf(cmd.caret)), cmd.caret - StartOfLine(LineOf(cmd.caret))) = 0
    /\ hostCaret = StartOfLine(LineOf(cmd.caret)) + ContentStart(TextOfLine(LineOf(cmd.caret)), 1)
    /\ hostCaret > StartOfLine(LineOf(cmd.caret)) + CellStart(TextOfLine(LineOf(cmd.caret)), 1)
    /\ out[2] = EvSpeak(<<"a">>)

\* C19: a move by one row looks at the adjacent line only: when it is a table row
\* with at least one cell the caret lands at the start of the trimmed content of
\* the cell in column min(current column, cells - 1) of that line; when it is no
\* table row, has no cell or is not there, "Edge of table" is announced and the
\* caret is left where it was.
C19_Vertical ==
    (TableDone /\ cmd.col_dir = 0 /\ cmd.row_dir # 0) =>
        LET line == LineOf(cmd.caret)
            adjacent == line + cmd.row_dir
            current == ColumnAt(TextOfLine(line), cmd.caret - StartOfLine(line))
            cells == NumCells(TextOfLine(adjacent))
            target == IF current < cells - 1 THEN current ELSE cells - 1
        IN  IF IsRow(adjacent)
            THEN /\ EventsOf(out) = CellLanding(adjacent, target)
                 /\ hostCaret = StartOfLine(adjacent) + ContentStart(TextOfLine(adjacent), target)
                 /\ LineOf(hostCaret) = adjacent
            ELSE EventsOf(out) = EdgeOfTable /\ hostCaret = cmd.caret

\* row down from the second cell of a row of two to a row of one cell: the column
\* was clamped and the caret is at the text of that cell, after its blank
C19_Witness ==
    /\ TableDone
    /\ cmd.snapshot = "ok"
    /\ cmd.row_dir = 1
    /\ ColumnAt(TextOfLine(LineOf(cmd.caret)), cmd.caret - StartOfLine(LineOf(cmd.caret))) = 1
    /\ IsRow(LineOf(cmd.caret) + 1)
    /\ NumCells(TextOfLine(LineOf(cmd.caret) + 1)) = 1
    /\ hostCaret = StartOfLine(LineOf(cmd.caret) + 1) + 2

--------------------------------------------------------------------------------
\* Claims about the legacy step (checked under SpecStep)

\* start b lies strictly beyond start a in the direction
Advanced(a, b, direction) == IF direction = 1 THEN b > a ELSE b < a

\* the native line move reported a count and the range did not advance
GhostMove ==
    /\ ret.native.line.kind = "ok"
    /\ ret.native.line.res # 0
    /\ ~Advanced(ret.tiOriginal.start, ret.native.line.start, ret.direction)

\* C20: _step_line returns True only with a range that starts strictly after
\* (forward) or before (backward) the start of the range it was called with. A line
\* move that reports a count without advancing is not taken as progress: the step
\* then succeeds exactly when the character step from the edge of the original
\* range (its end going forward, its start going backward) is made and leads to a
\* range that advanced on the original and, going forward, does not start before
\* that edge. A line move that reports 0 or raises fails the step.
C20_StepLine ==
    ret.op = "step" =>
        LET from == ret.tiOriginal
            native == ret.native
            recovered == HostRangeFrom(native.char.start)
        IN  /\ ret.result.ok =>
                   Advanced(from.start, ret.result.ti.start, ret.direction)
            /\ GhostMove =>
                   /\ ret.result.ok <=>
                          /\ native.collapse = "ok"
                          /\ native.char.res # 0
                          /\ Advanced(from.start, recovered.start, ret.direction)
                          /\ ret.direction = 1 => recovered.start >= from.end
                   /\ ret.result.ok => ret.result.ti = recovered
            /\ (native.line.kind = "raise" \/ native.line.res = 0) => ~ret.result.ok
            /\ (native.line.kind = "ok" /\ native.line.res # 0 /\ ~GhostMove) =>
                   ret.result.ok /\ ret.result.ti = HostRangeFrom(native.line.start)

\* a forward line move reported a count and stayed; the character step went on to
\* the next line and the step succeeded there
C20_Witness ==
    /\ ret.op = "step"
    /\ ret.direction = 1
    /\ GhostMove
    /\ ret.native.line.start = ret.tiOriginal.start
    /\ ret.result.ok
    /\ ret.result.ti.start = ret.tiOriginal.end
    /\ ret.result.ti.start > ret.tiOriginal.start

\* the native line move, or the expand or comparison after it, raised
LineMoveRaised ==
    \/ ret.native.line.kind = "raise"
    \/ ret.native.line.kind = "raiseAfter" /\ ret.native.line.res # 0

\* C21: when the native line move, or the expand or comparison after it, raises a
\* boundary or communication error, _step_line returns False at once, no collapse
\* and no character move made after it; the same when the line move returns 0.
C21_NoRecoveryAfterError ==
    (ret.op = "step" /\ (LineMoveRaised \/ ret.native.line.res = 0)) =>
        /\ ~ret.result.ok
        /\ ret.result.calls[1] = "move(UNIT_LINE)"
        /\ \A i \in 1 .. Len(ret.result.calls) :
               ret.result.calls[i] \notin {"collapse", "move(UNIT_CHARACTER)"}
        /\ ret.native.line.res = 0 => ret.result.calls = <<"move(UNIT_LINE)">>

\* the expand after a line move that reported a count raised, the character move
\* would have gone on: the step failed without it
C21_Witness ==
    /\ ret.op = "step"
    /\ ret.direction = 1
    /\ ret.native.line.kind = "raiseAfter"
    /\ ret.native.line.res = 1
    /\ ret.native.collapse = "ok"
    /\ ret.native.char.res = 1
    /\ ret.native.char.start = ret.tiOriginal.end
    /\ ret.native.char.start > ret.tiOriginal.start
    /\ ~ret.result.ok
    /\ ret.result.calls = <<"move(UNIT_LINE)", "expand">>

--------------------------------------------------------------------------------
\* getTextInfo: the three strategies

\* the call asked a control with a flat text object of a web document
FlatAsked ==
    /\ ret.op = "getTextInfo"
    /\ ~ret.control.offsets
    /\ isWeb(ret.control)
    /\ ret.control.hasIA2

\* the line the generic strategy reaches: delta lines from the caret's line, as far
\* as the document goes
GenericLine == IF ret.lineIndex >= NumLines THEN NumLines - 1 ELSE ret.lineIndex

\* C22: each getTextInfo call is ended by one of three strategies, in this
\* priority: the linear-offset one whenever the document is an offsets-based
\* range, whatever the application; else the flat one when the application is a
\* listed browser and the object has the accessible-text capability; else the
\* generic one, which moves line - originalLineIndex units from a copy of the
\* original caret, reads no offset table and leaves the original caret alone.
C22_StrategyPriority ==
    ret.op = "getTextInfo" =>
        /\ ret.result.strategy \in {"linear", "flat", "generic"}
        /\ ret.control.offsets => ret.result.strategy = "linear"
        /\ (FlatAsked /\ ret.control.flat \in {"ok", "expand"}) => ret.result.strategy = "flat"
        /\ (~ret.control.offsets /\ ~(isWeb(ret.control) /\ ret.control.hasIA2)) =>
               ret.result.strategy = "generic"
        /\ ret.result.strategy = "generic" =>
               /\ ret.result.ti.start = StartOfLine(GenericLine)
               /\ ret.result.ti.text = TextOfLine(GenericLine)
               /\ \A r \in ret.result.reads : r[1] # "generic"
               /\ ~isWeb(ret.control) => ret.result.reads = {}
               /\ ret.result.originalCaret = hostCaret

\* a browser object without the capability: the generic strategy went from the
\* caret, inside its line, to another line
C22_Witness ==
    /\ ret.op = "getTextInfo"
    /\ ~ret.control.offsets
    /\ ret.control.appName = "Firefox"
    /\ ~ret.control.hasIA2
    /\ ret.result.strategy = "generic"
    /\ ret.lineIndex < NumLines
    /\ ret.lineIndex # LineOf(hostCaret)
    /\ hostCaret # StartOfLine(LineOf(hostCaret))
    /\ ret.result.ti.start = StartOfLine(ret.lineIndex)
    /\ ret.result.originalCaret = hostCaret

\* C23: in the flat web strategy any failure (constructing the flat position,
\* forcing its offsets, expanding it to the line) makes getTextInfo fall through
\* to the generic strategy; a flat position whose construction or expansion
\* failed is never returned.
C23_FlatFailureFallsThrough ==
    (FlatAsked /\ ret.control.flat # "ok") =>
        /\ ret.result.strategy = "generic"
        /\ ret.result.ti.start = StartOfLine(GenericLine)
        /\ ret.result.ti.text = TextOfLine(GenericLine)

\* C23, as the code has it: a failure to construct the flat position or to force
\* its offsets makes getTextInfo fall through to the generic strategy; a failure
\* of the expansion is logged and the flat position is returned, collapsed at the
\* forced offset.
C23_FlatFailure ==
    /\ (FlatAsked /\ ret.control.flat \in {"construct", "force"}) =>
           /\ ret.result.strategy = "generic"
           /\ ret.result.raised = "none"
           /\ ret.result.ti.start = StartOfLine(GenericLine)
           /\ ret.result.ti.text = TextOfLine(GenericLine)
    /\ (FlatAsked /\ ret.control.flat = "expand") =>
           /\ ret.result.strategy = "flat"
           /\ ret.result.raised = "none"
           /\ ret.result.ti.start = StartOfLine(GenericLine)
           /\ ret.result.ti.end = ret.result.ti.start
           /\ ret.result.ti.text = <<>>

\* the flat position could not be constructed: the generic strategy answered
C23_Witness ==
    /\ FlatAsked
    /\ ret.control.flat = "construct"
    /\ ret.lineIndex < NumLines
    /\ ret.lineIndex # LineOf(hostCaret)
    /\ ret.result.strategy = "generic"
    /\ ret.result.ti.start = StartOfLine(ret.lineIndex)
    /\ ret.result.ti.text # <<>>

\* C24: a line index at or beyond nLines resolves to the end of the document on
\* every strategy and every encoding: getLineOffset returns the document length,
\* getTextInfo returns, without raising, a position placed at the end of the
\* document text, not at the start of the last line.
C24_PastTheTable ==
    (ret.op = "getTextInfo" /\ ret.lineIndex >= fdm.nLines) =>
        /\ ret.lineOffset = Len(documentText)
        /\ ret.result.raised = "none"
        /\ ret.result.at = Len(documentText)

\* a line index past the table, on a document whose last line is not empty
C24_Witness ==
    /\ ret.op = "getTextInfo"
    /\ ret.lineIndex >= fdm.nLines
    /\ StartOfLine(NumLines - 1) < Len(documentText)
    /\ ret.control.offsets
    /\ ret.control.encoding = "None"
    /\ ret.result.at = Len(documentText)

--------------------------------------------------------------------------------
\* Outcomes of a command

\* the events of kind ev in the events of the command
EventsOfKind(ev) == {i \in 1 .. Len(EventsOf(out)) : EventsOf(out)[i].ev = ev}

\* a navigation: the caret placed and the destination spoken
Navigated ==
    /\ EventsOfKind("caret") # {}
    /\ EventsOfKind("speak") \cup EventsOfKind("speakLine") # {}

\* C25: every command, in either mode and on either path, ends with at least one
\* outcome the user can perceive: a navigation (caret placed and destination
\* spoken), a message, or the gesture sent on to the host; no command returns with
\* none of them, and the gesture is sent at most once.
C25_VisibleOutcome ==
    Returned =>
        /\ Navigated \/ EventsOfKind("message") # {} \/ EventsOfKind("send") # {}
        /\ Cardinality(EventsOfKind("send")) <= 1

\* a backward code command on the fast path has returned with the caret moved to a
\* fence and nothing spoken, shown or sent
C25_Witness ==
    /\ FastDone
    /\ cmd.handler = "_navigateCode"
    /\ hostCaret # cmd.caret
    /\ EventsOfKind("caret") # {}
    /\ ~Navigated
    /\ EventsOfKind("message") = {}
    /\ EventsOfKind("send") = {}

\* the exceptions of a host failure: a capability the control lacks, a failed
\* cross-process call
HostFailures == {"NotImplementedError", "LookupError", "COMError"}

\* C26: no host failure leaves a command handler: a capability or communication
\* error raised by a host call, on the fast path or in the legacy function, ends
\* in a less optimized strategy, the gesture sent on, or a message; when the
\* legacy function cannot obtain the caret range, for either kind of error, the
\* gesture is sent on.
C26_NoHostFailureEscapes ==
    Returned =>
        /\ \A i \in 1 .. Len(out) : out[i].ev = "raise" => out[i].text[1] \notin HostFailures
        /\ (SnapshotFailed /\ cmd.handler # "_find_block_boundary"
               /\ EventsOfKind("caret") \cup EventsOfKind("message") \cup EventsOfKind("speak")
                     \cup EventsOfKind("speakLine") = {}) =>
               EventsOf(out) = <<EvSend>>

\* the legacy function of a handed-off command was refused the caret range with a
\* communication error, which left the handler
C26_Witness ==
    /\ Returned
    /\ SnapshotFailed
    /\ cmd.handler = "_navigate"
    /\ out = <<LegacyCall(cmd), EvRaise("COMError")>>
    /\ hostCaret = cmd.caret

--------------------------------------------------------------------------------
\* The legacy function against the fast path

\* what the fast path does with command c on the document, from the caret of c
FastOf(c) ==
    CASE c.handler = "_navigate" ->
             _navigateFast(FdmEnter(documentText, c.caret), c.caret, c.regex, c.direction,
                           c.name, c.focus_element, c.notFoundMessage).out
      [] c.handler = "_navigateBlock" ->
             _navigateBlockFast(FdmEnter(documentText, c.caret), c.regex, c.direction, c.name,
                                c.notFoundMessage).out
      [] c.handler = "_navigateCode" ->
             _navigateCodeFast(FdmEnter(documentText, c.caret), c.direction, c.name,
                               c.notFoundMessage).out
      [] OTHER -> <<>>

\* the legacy function of a command of handler h ran on the caret range and returned
LegacyRan(h) ==
    /\ Returned
    /\ SnapshotFailed
    /\ cmd.handler = h
    /\ EventsOfKind("raise") = {}
    /\ EventsOfKind("send") = {}

\* C27: for the generic and the block commands, on a host whose line steps are
\* faithful, the legacy function and the fast path select the same destination
\* line and match, for every document, caret, construct and direction, and put out
\* the same: the same caret position and spoken match or line, or the same
\* not-found message.
C27_LegacyAsFast ==
    (LegacyRan("_navigate") \/ LegacyRan("_navigateBlock")) => EventsOf(out) = FastOf(cmd)

\* a backward footnote command in the legacy function, the caret inside a line of
\* two footnotes, went to the footnote before the caret, as the fast path does
C27_Witness ==
    /\ LegacyRan("_navigate")
    /\ cmd.focus_element
    /\ cmd.direction = -1
    /\ hostCaret # cmd.caret
    /\ LineOf(hostCaret) = LineOf(cmd.caret)
    /\ EventsOfKind("speak") # {}
    /\ EventsOf(out) = FastOf(cmd)

\* the destination of a run of events: the position the caret was put at, or -1
\* when it was left alone
Destination(events) == CaretAfter(events, -1)

\* C28: for code navigation, on a host whose line steps are faithful, the legacy
\* function and the fast path select the same destination for every document,
\* caret and direction: the same fence line from an opening or a closing fence,
\* the same opening fence when a bare closing fence is met going backward, the
\* same inline code span otherwise.
C28_CodeLegacyAsFast ==
    LegacyRan("_navigateCode") => Destination(EventsOf(out)) = Destination(FastOf(cmd))

\* a forward code command from a fence line: the fast path stops at the next
\* fence, the legacy function goes on beyond it
C28_Witness ==
    /\ LegacyRan("_navigateCode")
    /\ cmd.direction = 1
    /\ FenceLine(LineOf(cmd.caret))
    /\ Destination(FastOf(cmd)) >= 0
    /\ FenceLine(LineOf(Destination(FastOf(cmd))))
    /\ Destination(EventsOf(out)) # Destination(FastOf(cmd))

--------------------------------------------------------------------------------
\* The scan loops of a command, one iteration at a time, whatever the lines hold:
\* "while fdm.move(direction) != 0" with the walk "while targetLine > 0" inside
\* it on the fast path, "while _step_line(tiScan, direction)" with the walk
\* "while _step_line(temp_ti, -1)" inside it in the legacy functions, on a host
\* that answers the native calls in every way.  In ret: the path, the direction,
\* the range of the legacy loop (ti), the line of the fast walk (line), the
\* iterations of the loop that runs (steps), whether the host made a ghost move.

\* the host's answers to one _step_line, those that differ in a call never made
\* left out
ScanAnswers(direction) ==
    {NativeAnswer("raise", 0, 0, "ok", 0, 0), NativeAnswer("ok", 0, 0, "ok", 0, 0),
     NativeAnswer("raiseAfter", direction, 0, "ok", 0, 0)}
    \cup {NativeAnswer("ok", direction, p, c, 0, 0) :
              p \in 0 .. Len(documentText), c \in {"ok", "raise"}}
    \cup {NativeAnswer("ok", direction, p, "ok", direction, q) :
              p \in 0 .. Len(documentText), q \in 0 .. Len(documentText)}

InitScan ==
    /\ documentText \in DocsOfLines({Plain}, MaxLines)
    /\ hostCaret \in 0 .. Len(documentText)
    /\ markdownBrowseMode = TRUE
    /\ fdm = FdmEnter(documentText, hostCaret)
    /\ pc = "scan"
    /\ cmd = NoCmd
    /\ out = <<>>
    /\ \E path \in {"fast", "legacy"}, direction \in {1, -1} :
          ret = [op |-> "scan", path |-> path, direction |-> direction,
                 ti |-> HostExpandLine(hostCaret), line |-> 0, steps |-> 0, ghost |-> FALSE]

\* the line reached is tested: the loop goes on, or breaks, or (in the scan) the
\* walk towards the top of the block or the opening fence starts there
AfterIteration == IF pc = "scan" THEN {"scan", "walk", "ended"} ELSE {"walk", "ended"}

\* one iteration of a loop of the fast path
FastIteration ==
    /\ pc \in {"scan", "walk"}
    /\ ret.path = "fast"
    /\ ret.steps <= fdm.nLines
    /\ IF pc = "scan"
       THEN LET r == move(fdm, ret.direction)
            IN  IF r.ret = 0
                THEN pc' = "ended" /\ UNCHANGED <<fdm, ret>>
                ELSE /\ fdm' = r.fdm
                     /\ \E next \in AfterIteration :
                           /\ pc' = next
                           /\ ret' = [ret EXCEPT !.line = r.fdm.lineIndex,
                                                  !.steps = IF next = "walk" THEN 0 ELSE @ + 1]
       ELSE IF ret.line > 0
            THEN /\ \E next \in AfterIteration : pc' = next
                 /\ ret' = [ret EXCEPT !.line = @ - 1, !.steps = @ + 1]
                 /\ UNCHANGED fdm
            ELSE pc' = "ended" /\ UNCHANGED <<fdm, ret>>
    /\ UNCHANGED <<documentText, hostCaret, markdownBrowseMode, cmd, out>>

\* one iteration of a loop of a legacy function
LegacyIteration ==
    /\ pc \in {"scan", "walk"}
    /\ ret.path = "legacy"
    /\ ret.steps <= Len(documentText)
    /\ LET direction == IF pc = "walk" THEN -1 ELSE ret.direction
       IN  \E native \in ScanAnswers(direction) :
              LET s == StepLineOn(ret.ti, direction, native)
                  ghost == /\ native.line.kind = "ok"
                           /\ native.line.res # 0
                           /\ IF direction = 1 THEN native.line.start <= ret.ti.start
                                                ELSE native.line.start >= ret.ti.start
              IN  IF ~s.ok
                  THEN /\ pc' = "ended"
                       /\ ret' = [ret EXCEPT !.ghost = @ \/ ghost]
                  ELSE \E next \in AfterIteration :
                          /\ pc' = next
                          /\ ret' = [ret EXCEPT !.ti = s.ti, !.ghost = @ \/ ghost,
                                                 !.steps = IF next = "walk" /\ pc = "scan"
                                                           THEN 0 ELSE @ + 1]
    /\ UNCHANGED <<documentText, hostCaret, markdownBrowseMode, fdm, cmd, out>>

NextScan == FastIteration \/ LegacyIteration

\* the handler runs to its end once called: no loop is left waiting
SpecScan == InitScan /\ [][NextScan]_vars /\ WF_vars(NextScan)

\* an iteration of a legacy loop that went on left the range strictly further in
\* the direction of the loop
LegacyAdvances ==
    (ret.path = "legacy" /\ pc' \in {"scan", "walk"} /\ ret'.steps > 0) =>
        Advanced(ret.ti.start, ret'.ti.start, IF pc = "walk" THEN -1 ELSE ret.direction)

\* C29: every navigation command terminates: a scan loop of the fast path makes at
\* most nLines cursor steps before it ends; in the legacy functions every
\* successful _step_line leaves the range strictly further in the direction of
\* travel, so every loop, the walk to the top of a block and the scan for the
\* matching fence included, ends after finitely many steps on a finite document,
\* ghost moves or not.
C29_Terminates ==
    /\ [](ret.path = "fast" => ret.steps <= fdm.nLines)
    /\ [](ret.path = "legacy" => ret.steps <= Len(documentText))
    /\ [][LegacyAdvances]_vars
    /\ <>(pc = "ended")

\* a legacy loop has ended after two iterations, the host having made a ghost move
C29_Witness ==
    /\ pc = "ended"
    /\ ret.path = "legacy"
    /\ ret.ghost
    /\ ret.steps >= 2

--------------------------------------------------------------------------------
\* Reads of the host's text

\* C30: in one fast-path command the host is asked for the text of the document
\* once and for the text before the caret once, both when the snapshot is taken;
\* scanning the lines and locating the caret in its line read no host text again,
\* for every construct, the inline-focus ones included.
C30_OneSnapshotRead ==
    FastDone => fdm.textReads = <<"document.text", "pretext.text">>

\* a footnote command on the fast path has read the text before the caret a
\* second time
C30_Witness ==
    /\ FastDone
    /\ cmd.handler = "_navigate"
    /\ cmd.focus_element
    /\ fdm.textReads = <<"document.text", "pretext.text", "pretext.text">>

--------------------------------------------------------------------------------
\* Two editable documents: each has its own MarkdownEditorOverlay object.  The
\* class attribute markdownBrowseMode = False is the default of both; the toggle
\* script assigns self.markdownBrowseMode, an attribute of the one object.  The
\* flag of the other document is kept in ret.

InitSession ==
    /\ documentText \in DocsOfLines({Plain, Row, FenceClose}, MaxLines)
    /\ hostCaret \in 0 .. Len(documentText)
    /\ markdownBrowseMode = FALSE
    /\ fdm = FdmInit
    /\ pc = "idle"
    /\ cmd = NoCmd
    /\ out = <<>>
    /\ ret = [op |-> "other", markdownBrowseMode |-> FALSE]

\* mutant: the flag is kept on the class, one for all documents
ToggleOtherShared ==
    /\ pc = "idle"
    /\ markdownBrowseMode' = ~markdownBrowseMode
    /\ ret' = [ret EXCEPT !.markdownBrowseMode = ~markdownBrowseMode]
    /\ UNCHANGED <<documentText, hostCaret, fdm, pc, cmd, out>>

\* script_toggleMarkdownBrowseMode on the overlay object of the other document
ToggleOther ==
    /\ pc = "idle"
    /\ ret' = [ret EXCEPT !.markdownBrowseMode = ~@]
    /\ UNCHANGED <<documentText, hostCaret, markdownBrowseMode, fdm, pc, cmd, out>>

NextSession == Next \/ ToggleOther

SpecSession == InitSession /\ [][NextSession]_vars

\* the step is the toggle command of this document
ToggleStep == pc = "idle" /\ pc' = "done" /\ cmd'.handler = "toggle"

\* C31: the only state carried from one command to the next is the browse-mode
\* flag of the document: it starts off, each toggle command of the document flips
\* it and nothing else changes it (no navigation command, whatever its outcome,
\* no toggle on another document); between commands no manager, command or output
\* is kept, so every navigation command opens a fresh snapshot.
C31_OnlyTheFlag ==
    /\ ~markdownBrowseMode
    /\ [][/\ ToggleStep => markdownBrowseMode' = ~markdownBrowseMode
          /\ ~ToggleStep => markdownBrowseMode' = markdownBrowseMode
          /\ pc' = "idle" => fdm' = FdmInit /\ cmd' = NoCmd /\ out' = <<>>
          /\ (pc = "idle" /\ pc' # "idle" /\ fdm'.opened) =>
                 fdm'.documentText = documentText /\ fdm'.initialCaretOffset = hostCaret]_vars

\* a navigation command has moved the caret with browse mode on while the other
\* document's browse mode is off
C31_Witness ==
    /\ FastDone
    /\ hostCaret # cmd.caret
    /\ markdownBrowseMode
    /\ ~ret.markdownBrowseMode

--------------------------------------------------------------------------------
\* Jump to the start or end of an element, on documents of plain lines, list
\* items, table rows and blockquote lines

ListItem == <<"-", " ", "a">>
Quote == <<">", " ", "a">>
QuoteBare == <<">">>

InitBoundary == InitWith(DocsOfLines({Plain, ListItem, Row, Quote, QuoteBare}, MaxLines))

NextBoundary ==
    \/ script_toggleMarkdownBrowseMode
    \/ script_endOfElement
    \/ Return

SpecBoundary == InitBoundary /\ [][NextBoundary]_vars

\* the block patterns in the order they are tried
BlockPatterns == <<"RE_LIST_ITEM", "RE_TABLE", "RE_BLOCKQUOTE">>

\* the block patterns that match line k
PatternsOn(k) == {i \in 1 .. 3 : match(BlockPatterns[i], TextOfLine(k))}

\* line e is the far end, in the direction, of the run of lines matching regex
\* that holds line k
FarEnd(regex, k, e, direction) ==
    /\ e \in 0 .. NumLines - 1
    /\ IF direction = 1 THEN e >= k ELSE e <= k
    /\ \A j \in 0 .. NumLines - 1 :
           ((k <= j /\ j <= e) \/ (e <= j /\ j <= k)) => match(regex, TextOfLine(j))
    /\ e + direction \in 0 .. NumLines - 1 => ~match(regex, TextOfLine(e + direction))

\* C32: jump to the end (start) of the element with browse mode on: when the caret
\* line matches none of list item, table row, blockquote, the message 'Not inside a
\* list, table, or blockquote' is shown, the caret stays and the gesture is not
\* sent; otherwise, with the first of the three patterns, in that order, that
\* matches the caret line, the caret goes to line e, every line from the caret line
\* to e matching the pattern and the line beyond e missing or not matching.  When
\* the snapshot cannot be opened the gesture is sent and no legacy function runs.
C32_ElementBoundary ==
    (pc \in {"done", "legacy"} /\ cmd.handler = "_find_block_boundary" /\ cmd.browse) =>
        /\ pc = "done"
        /\ \A i \in 1 .. Len(out) : out[i].ev # "legacy"
        /\ IF cmd.snapshot # "ok"
           THEN out = <<EvSend>> /\ hostCaret = cmd.caret
           ELSE IF PatternsOn(LineOf(cmd.caret)) = {}
           THEN /\ out = <<EvMessage(<<"Not inside a list, table, or blockquote">>)>>
                /\ hostCaret = cmd.caret
           ELSE LET regex == BlockPatterns[Min(PatternsOn(LineOf(cmd.caret)))]
                    e == LineOf(hostCaret)
                IN  /\ FarEnd(regex, LineOf(cmd.caret), e, cmd.direction)
                    /\ hostCaret = StartOfLine(e)
                    /\ out = <<EvCaret(StartOfLine(e)),
                               [ev |-> "speakLine", at |-> StartOfLine(e),
                                text |-> TextOfLine(e), args |-> <<>>]>>

\* from the first line of a blockquote of three lines the jump to the end went to
\* its last line
C32_Witness ==
    /\ FastDone
    /\ cmd.script = "endOfElement"
    /\ LineOf(cmd.caret) = 0
    /\ PatternsOn(0) = {3}
    /\ LineOf(hostCaret) = 2
    /\ hostCaret = StartOfLine(2)

--------------------------------------------------------------------------------
\* Forward block navigation on both paths (checked under SpecNavigate)

\* a forward block command ran to its end, on the fast path or in the legacy
\* function
ForwardBlockRan ==
    /\ FastDone \/ LegacyRan("_navigateBlock")
    /\ cmd.handler = "_navigateBlock"
    /\ cmd.direction = 1

\* line d is a first line of a block below the caret's line k, outside the block
\* that holds k
NextBlockHead(c, k, d) ==
    /\ d > k
    /\ BlockLine(c, d)
    /\ ~BlockLine(c, d - 1)

\* C33: next table / list / blockquote never lands inside the caret's own block:
\* from a matching caret line the contiguous matching lines that follow are passed
\* over and the destination is the first matching line after at least one line
\* that does not match; from a caret line that does not match it is the first
\* matching line below.  The destination d matches and line d - 1 does not.
C33_ForwardLeavesBlock ==
    ForwardBlockRan =>
        LET k == LineOf(cmd.caret)
            heads == {d \in 0 .. NumLines - 1 : NextBlockHead(cmd, k, d)}
        IN  IF EventsOfKind("caret") = {}
            THEN heads = {} /\ hostCaret = cmd.caret /\ EventsOf(out) = <<NotFoundOf(cmd)>>
            ELSE LET d == LineOf(hostCaret)
                 IN  /\ NextBlockHead(cmd, k, d)
                     /\ \A j \in heads : d <= j
                     /\ BlockLine(cmd, k) => \E j \in k + 1 .. d - 1 : ~BlockLine(cmd, j)
                     /\ ~BlockLine(cmd, k) => \A j \in k + 1 .. d - 1 : ~BlockLine(cmd, j)
                     /\ hostCaret = StartOfLine(d)
                     /\ EventsOf(out) = LandingOnLine(d)

\* next table in the legacy function, from a row: a line that is no row was passed
\* and the row below it reached
C33_Witness ==
    /\ ForwardBlockRan
    /\ LegacyRan("_navigateBlock")
    /\ LineOf(cmd.caret) = 0
    /\ BlockLine(cmd, 0)
    /\ ~BlockLine(cmd, 1)
    /\ BlockLine(cmd, 2)
    /\ hostCaret = StartOfLine(2)

--------------------------------------------------------------------------------
\* The legacy table function against the fast table path

\* what _navigateTableFast does with command c on the document, from the caret of c
FastTableOf(c) ==
    _navigateTableFast(FdmEnter(documentText, c.caret), c.row_dir, c.col_dir).out

\* the legacy table function returned what it does once it has the caret range
TableLegacyRan ==
    /\ Returned
    /\ SnapshotFailed
    /\ cmd.handler = "_navigateTable"
    /\ EventsOf(out) = navigate_table_legacy(cmd.caret, cmd.row_dir, cmd.col_dir)

\* C34: table navigation comes out the same in the legacy function as on the fast
\* path for every caret line, caret column and direction on a faithful host; from
\* a caret line that is no table row, or that has no cells, both leave the caret
\* alone and answer the user in the same way.
C34_TableLegacyAsFast == TableLegacyRan => EventsOf(out) = FastTableOf(cmd)

\* the caret line of the command is a table row with at least one cell
OnTableRow ==
    /\ match("RE_TABLE", TextOfLine(LineOf(cmd.caret)))
    /\ _parse_table_row(TextOfLine(LineOf(cmd.caret))) # <<>>

\* from a caret line that is a row with cells the two paths put out the same
C34_FromARow == (TableLegacyRan /\ OnTableRow) => EventsOf(out) = FastTableOf(cmd)

\* a table command from a plain line went to the legacy function, which sent the
\* gesture on, where the fast path shows a message
C34_Witness ==
    /\ TableLegacyRan
    /\ ~OnTableRow
    /\ EventsOf(out) = <<EvSend>>
    /\ FastTableOf(cmd) = <<EvMessage(<<"Not inside a table">>)>>
    /\ hostCaret = cmd.caret

--------------------------------------------------------------------------------
\* Progress of a repeated command

\* the direction of travel of command c: +1 down or right, -1 up or left
TravelDir(c) == IF c.handler = "_navigateTable" THEN c.row_dir + c.col_dir ELSE c.direction

\* a generic, block or table command ran on the fast path and placed the caret
Found ==
    /\ FastDone
    /\ cmd.handler \in {"_navigate", "_navigateBlock", "_navigateTable"}
    /\ EventsOfKind("caret") # {}

\* C35: a command that finds its construct puts the caret strictly further in the
\* direction of travel than it was before the command (so that repeats of the
\* command visit the remaining matches one at a time, none twice, and then report
\* the boundary or the edge).
C35_StrictProgress ==
    Found => /\ TravelDir(cmd) = 1 => hostCaret > cmd.caret
             /\ TravelDir(cmd) = -1 => hostCaret < cmd.caret

\* the caret of the command is held by a cell of its line
InACell ==
    LET cells == _parse_table_row(TextOfLine(LineOf(cmd.caret)))
        at == cmd.caret - StartOfLine(LineOf(cmd.caret))
    IN  \E i \in 1 .. Len(cells) : at >= cells[i].start /\ at <= cells[i].end

\* the same, column commands from a caret outside every cell left aside
C35_FromACell ==
    (Found /\ ~(cmd.handler = "_navigateTable" /\ cmd.col_dir # 0 /\ ~InACell))
        => /\ TravelDir(cmd) = 1 => hostCaret > cmd.caret
           /\ TravelDir(cmd) = -1 => hostCaret < cmd.caret

\* 'next cell' with the caret after the last pipe of a row of two cells put the
\* caret back on the second cell
C35_Witness ==
    /\ Found
    /\ cmd.script = "nextTableCell"
    /\ ~InACell
    /\ hostCaret < cmd.caret
    /\ LineOf(hostCaret) = LineOf(cmd.caret)

--------------------------------------------------------------------------------
\* Inline code after a closing fence

\* line k is a bare fence that closes a block: an odd number of fences lie above it
Closes(k) ==
    /\ ClosingLine(k)
    /\ Cardinality({j \in 0 .. k - 1 : FenceLine(j)}) % 2 = 1

\* the lines with inline code below line k and above the next fence
InlineLinesAfter(k) ==
    {j \in k + 1 .. NumLines - 1 :
        /\ finditer("RE_INLINE_CODE", TextOfLine(j)) # <<>>
        /\ \A i \in k + 1 .. j : ~FenceLine(i)}

\* next code was pressed with the caret where a landing on a closing fence left
\* it, and inline code lies between that fence and the next one
NextFromClosingFence ==
    /\ CodeDone
    /\ cmd.direction = 1
    /\ Closes(LineOf(cmd.caret))
    /\ cmd.caret = StartOfLine(LineOf(cmd.caret))
    /\ InlineLinesAfter(LineOf(cmd.caret)) # {}

\* C36: repeated next code presses visit every inline-code span outside the fenced
\* blocks: after a landing on a closing fence, the next press finds the inline code
\* on the lines between that fence and the next fence, before that next fence.
C36_InlineAfterClosingFence ==
    NextFromClosingFence
        => /\ LineOf(hostCaret) = Min(InlineLinesAfter(LineOf(cmd.caret)))
           /\ EventsOfKind("speak") # {}

\* next code from the closing fence of a block, inline code on the line below and
\* no fence after it: nothing was found and the caret stayed on the fence
C36_Witness ==
    /\ NextFromClosingFence
    /\ FencesBeyond(cmd) = {}
    /\ out = <<NotFoundOf(cmd)>>
    /\ hostCaret = cmd.caret

--------------------------------------------------------------------------------
\* A host call that fails after the fast path placed the caret

\* MarkdownEditorOverlay._navigate on a line-anchored command whose fast path finds
\* a line: fdm.updateCaret() places the caret, then speech.speakTextInfo(lineInfo)
\* reads the range through the host and the host refuses (RuntimeError,
\* NotImplementedError, LookupError or COMError). The exception leaves the with
\* block and is caught by the except clause of _navigate, which calls
\* navigate_legacy with the arguments of the command.
_navigateSpeakRaises ==
    /\ pc = "idle"
    /\ markdownBrowseMode
    /\ \E script \in NavigateScripts :
       \E notFoundMessage \in {script.notFoundMessage, None} :
          LET res == _navigateFast(FdmEnter(documentText, hostCaret), hostCaret, script.regex,
                                   script.direction, script.name, script.focus_element,
                                   notFoundMessage)
          IN  /\ ~script.focus_element
              /\ Len(res.out) = 2
              /\ res.out[1].ev = "caret"
              /\ res.out[2].ev = "speakLine"
              /\ cmd' = Received(script, notFoundMessage, "ok")
              /\ out' = <<res.out[1],
                          EvLegacy("navigate_legacy",
                                   <<script.regex, script.direction, script.name,
                                     script.focus_element, notFoundMessage>>)>>
              /\ fdm' = res.fdm
              /\ hostCaret' = res.out[1].at
    /\ pc' = "legacy"
    /\ UNCHANGED <<documentText, markdownBrowseMode, ret>>

InitRefusing == InitWith(DocsOfLines({Plain, Heading}, MaxLines))

NextRefusing ==
    \/ script_toggleMarkdownBrowseMode
    \/ _navigate
    \/ _navigateSpeakRaises
    \/ Legacy
    \/ Return

\* the generic commands on a host that may refuse the reading of the destination
SpecRefusing == InitRefusing /\ [][NextRefusing]_vars

\* C37: a command navigates at most once: the legacy function is entered only
\* when the fast path has neither placed the caret nor spoken, so a host error
\* raised after the fast path placed the caret never brings a second navigation,
\* by the legacy function, from the new caret.
C37_OneNavigation ==
    \A i \in 1 .. Len(out) :
        out[i].ev = "legacy"
            => \A j \in 1 .. i - 1 : out[j].ev \notin {"caret", "speak", "speakLine"}

\* next heading from above two headings: the fast path put the caret on the first,
\* the reading of it was refused, and the legacy function went on to the second
C37_Witness ==
    /\ pc = "done"
    /\ cmd.script = "nextHeading"
    /\ Len(out) = 4
    /\ out[1].ev = "caret"
    /\ out[2].ev = "legacy"
    /\ out[3].ev = "caret"
    /\ LineOf(cmd.caret) < LineOf(out[1].at)
    /\ LineOf(out[1].at) < LineOf(out[3].at)
    /\ hostCaret = out[3].at

--------------------------------------------------------------------------------
\* The controller's placement inside a resolved line

\* the controller's isWeb = appName.lower() in ("chrome", "msedge")
isWebController(control) == lower(control.appName) \in {"chrome", "msedge"}

\* if isWeb and isinstance(lineInfo, IA2TextTextInfo): the UTF-16 offset of the
\* target is injected into the flat range; else the range is collapsed and moved
\* by character units. The flat strategy alone returns an IA2TextTextInfo.
Placement(control, result) ==
    IF isWebController(control) /\ result.strategy = "flat" THEN "inject" ELSE "step"

\* the inline-focus, code and table-cell placements: the controller takes the
\* line's range from fdm.getTextInfo() and places the caret target_char_offset
\* characters into the line
PlaceInLine ==
    /\ pc = "resolved"
    /\ ret.result.raised = "none"
    /\ \E target_char_offset \in 0 .. Len(ret.result.ti.text) :
          ret' = [op |-> "place", control |-> ret.control, result |-> ret.result,
                  target_char_offset |-> target_char_offset,
                  placement |-> Placement(ret.control, ret.result)]
    /\ pc' = "placed"
    /\ UNCHANGED <<documentText, hostCaret, markdownBrowseMode, fdm, cmd, out>>

NextPlace ==
    \/ GetTextInfo
    \/ PlaceInLine

SpecPlace == InitResolve /\ [][NextPlace]_vars

\* C38: the resolver and the controller agree on which applications are web
\* content: whenever getTextInfo returned a flat position, the placement inside
\* the line injects the UTF-16 offset and does not collapse and step characters.
C38_FlatIsInjected ==
    (pc = "placed" /\ ret.result.strategy = "flat") => ret.placement = "inject"

\* in Firefox, which is on the resolver's list and not on the controller's, the
\* flat range of a line was collapsed and stepped
C38_Witness ==
    /\ pc = "placed"
    /\ lower(ret.control.appName) = "firefox"
    /\ isWeb(ret.control)
    /\ ret.result.strategy = "flat"
    /\ ret.placement = "step"
    /\ ret.target_char_offset > 0

--------------------------------------------------------------------------------
\* The numbers of the offset tables (checked under SpecIndex)

StrictlyIncreasing(a) == \A i \in 1 .. Len(a) - 1 : a[i] < a[i + 1]

\* the line terminators of the document: each \n (with the \r before it, if any)
\* and each \r that no \n follows
Terminators ==
    {p \in 1 .. Len(documentText) :
        \/ documentText[p] = LF
        \/ documentText[p] = CR /\ (p = Len(documentText) \/ documentText[p + 1] # LF)}

\* the characters outside the Basic Multilingual Plane among the first n
NonBmpBefore(n) == Cardinality({p \in 1 .. n : documentText[p] = EMOJI})

\* C39: in every snapshot both offset tables are strictly increasing, a \r\n pair
\* is one line break (nLines is 1 + the number of line terminators), and for every
\* line the UTF-16 offset exceeds the character offset by the number of
\* surrogate-pair characters before the line: never less, and equal when there is
\* none before it.
C39_OffsetNumbers ==
    fdm.opened =>
        /\ StrictlyIncreasing(fdm.pyOffsets)
        /\ StrictlyIncreasing(fdm.utf16Offsets)
        /\ fdm.nLines = 1 + Cardinality(Terminators)
        /\ \A i \in 1 .. fdm.nLines :
              /\ fdm.utf16Offsets[i] - fdm.pyOffsets[i] = NonBmpBefore(fdm.pyOffsets[i])
              /\ fdm.utf16Offsets[i] >= fdm.pyOffsets[i]
              /\ NonBmpBefore(fdm.pyOffsets[i]) = 0 => fdm.utf16Offsets[i] = fdm.pyOffsets[i]

\* opened on a text of three lines, the first ended by \r\n and the second
\* holding a surrogate-pair character: the tables agree on the second line and
\* differ by one on the third
C39_Witness ==
    /\ fdm.opened
    /\ fdm.nLines = 3
    /\ Len(documentText) = 4
    /\ documentText[1] = CR
    /\ documentText[2] = LF
    /\ documentText[3] = EMOJI
    /\ fdm.pyOffsets = <<0, 2, 4>>
    /\ fdm.utf16Offsets = <<0, 2, 5>>

====
